---- MODULE Spec2Model ----
(***************************************************************************)
(* Ledger layer of the hotel management application (src/interface.py):    *)
(* OrderRepo, CustomerRepo, BookingRepo and TicketRepo over the SQLite     *)
(* store.  Every repository call is one action.  A call works on a         *)
(* connection (get_conn) whose uncommitted statements are discarded when   *)
(* the connection is closed without commit (the "finally: conn.close()" of *)
(* every repository method).  The created_at column of orders, bookings    *)
(* and tickets holds the wall-clock text of the insert; no operation reads *)
(* it back into a decision, and the tables are modelled without it.        *)
(* A text that is matched, trimmed or parsed character by character (names, *)
(* phones, subjects, filters, dates) is the sequence of its characters.    *)
(***************************************************************************)
EXTENDS Integers, Sequences, FiniteSets, TLC

\* ------------------------------ bounds ------------------------------ *
MaxOrders == 2      \* create_order is called while fewer orders are stored
MaxCart == 2        \* entries of a cart
MaxBookings == 2    \* create_booking is called while fewer bookings are stored
MaxTickets == 2     \* create_ticket is called while fewer tickets are stored
MaxRows == 3        \* orders, bookings and tickets together, when all operations mix
MaxQty == 2         \* quantity of one item in the POS cart
MaxCheckouts == 1   \* _checkout succeeds while fewer orders are stored
MaxCategorySeq == 14 \* ids handed out for ticket_categories (6 by the first seeding)

VARIABLES
    menu_items,     \* table menu_items, row id = index
    rooms,          \* table rooms, row id = index
    orders,         \* table orders, row id = index
    order_items,    \* table order_items, row id = index
    customers,      \* table customers, row id = index
    bookings,       \* table bookings, row id = index
    tickets,        \* table tickets, row id = index
    ticket_categories, \* table ticket_categories, a set of rows
    category_seq,   \* sqlite_sequence of ticket_categories: the largest id handed out
    last,           \* the last repository call: arguments, outcome, store events
    files,          \* the files on disk, each the sequence of its path components
    pos_cart,       \* POSFrame.cart: <<item_id, qty>> entries in insertion order
    name_var,       \* POSFrame.name_var
    phone_var,      \* POSFrame.phone_var
    calls           \* the ensure_customer calls of concurrent processes, step by step

vars == <<menu_items, rooms, orders, order_items, customers, bookings, tickets,
          ticket_categories, category_seq, last, files, pos_cart, name_var, phone_var,
          calls>>

\* What is not in hotel.db.
outside == <<files, pos_cart, name_var, phone_var, calls>>

\* ------------------------------ seed data ------------------------------ *
MENU_SEED ==
    << <<"Pizza Margherita", "Main", 500, "pizza.png.png">>,
       <<"Pasta Alfredo", "Main", 750, "pasta.png.png">>,
       <<"Spring Rolls", "Starter", 525, "spring_rolls.png.png">>,
       <<"Garlic Bread", "Starter", 350, "garlic_bread.png.png">>,
       <<"Brownie Ice-cream", "Dessert", 450, "brownie.png.png">>,
       <<"Soft Drink", "Beverage", 250, "soda.png.png">>,
       <<"Mineral Water", "Beverage", 100, "water.png.png">> >>

ROOMS_SEED ==
    << << <<"1", "0", "1">>, "Single", 3500>>,
       << <<"1", "0", "2">>, "Double", 5000>>,
       << <<"2", "0", "1">>, "Deluxe", 7500>>,
       << <<"3", "0", "1">>, "Suite", 12000>> >>

SUPPORT_CATEGORIES_DEFAULT ==
    <<"Room Cleaning", "Food Delivery", "Taxi Service", "Laundry", "Complaint", "Other">>

FORCE_CATEGORY_SET == TRUE

\* ------------------------------ the store ------------------------------ *
\* The committed content of hotel.db.
Store ==
    [menu_items |-> menu_items, rooms |-> rooms, orders |-> orders,
     order_items |-> order_items, customers |-> customers,
     bookings |-> bookings, tickets |-> tickets,
     ticket_categories |-> ticket_categories, category_seq |-> category_seq]

\* The tables of hotel.db become those of s.
SetTables(s) ==
    /\ menu_items' = s.menu_items
    /\ rooms' = s.rooms
    /\ orders' = s.orders
    /\ order_items' = s.order_items
    /\ customers' = s.customers
    /\ bookings' = s.bookings
    /\ tickets' = s.tickets
    /\ ticket_categories' = s.ticket_categories
    /\ category_seq' = s.category_seq

\* A repository call that is made while nothing else goes on.
SetStore(s) ==
    /\ SetTables(s)
    /\ UNCHANGED outside

\* init_db(seed=True) on an empty database file: the tables exist, the menu
\* and the rooms hold the seed rows.
init_db_menu ==
    [i \in 1..Len(MENU_SEED) |->
        [id |-> i, name |-> MENU_SEED[i][1], category |-> MENU_SEED[i][2],
         price |-> MENU_SEED[i][3], image_path |-> MENU_SEED[i][4], is_active |-> 1]]

init_db_rooms ==
    [i \in 1..Len(ROOMS_SEED) |->
        [id |-> i, room_no |-> ROOMS_SEED[i][1], room_type |-> ROOMS_SEED[i][2],
         price_per_night |-> ROOMS_SEED[i][3], is_active |-> 1]]

init_db_categories ==
    {[id |-> i, name |-> SUPPORT_CATEGORIES_DEFAULT[i], is_active |-> 1] :
        i \in 1..Len(SUPPORT_CATEGORIES_DEFAULT)}

\* A connection: the committed store, the connection's own view with its
\* uncommitted statements, the number of write statements (INSERT, COMMIT)
\* the call has issued so far and the store events of the call.
get_conn(store, stmts, log) ==
    [store |-> store, work |-> store, stmts |-> stmts, log |-> Append(log, "get_conn")]

\* conn.commit(): the connection's statements become the committed store.
Commit(conn) ==
    [conn EXCEPT !.store = conn.work]

\* conn.close() without commit rolls the open transaction back.
CloseMut(conn) ==
    [conn EXCEPT !.store = conn.work, !.log = Append(conn.log, "close")]

Close(conn) ==
    [conn EXCEPT !.work = conn.store, !.log = Append(conn.log, "close")]

\* A write statement is issued: it is the (stmts+1)-th of the call.
Issue(conn, what) ==
    [conn EXCEPT !.stmts = conn.stmts + 1, !.log = Append(conn.log, what)]

Read(conn, what) ==
    [conn EXCEPT !.log = Append(conn.log, what)]

\* The outcome of a repository call after "finally: conn.close()".
OutcomeMut(conn, err, result) ==
    LET c == IF err = "" THEN Close(conn) ELSE [conn EXCEPT !.work = conn.store]
    IN [store |-> c.store, err |-> err, result |-> result, stmts |-> c.stmts, log |-> c.log]

Outcome(conn, err, result) ==
    LET c == Close(conn)
    IN [store |-> c.store, err |-> err, result |-> result, stmts |-> c.stmts, log |-> c.log]

\* ------------------------------ errors ------------------------------ *
ItemNotFound == "ValueError: Menu item id not found"
CheckQtyFailed == "IntegrityError: CHECK constraint failed: qty >= 1"
StoreError == "OperationalError: store failure"

\* The store fails the fault-th write statement of the call (0: no failure).
StoreFails(conn, fault) == conn.stmts = fault

\* ------------------------------ OrderRepo ------------------------------ *
\* "SELECT price FROM menu_items WHERE id = ?": the row, or none.
SelectPriceMut(conn, item_id) ==
    IF item_id \in DOMAIN conn.work.menu_items
    THEN <<MENU_SEED[item_id][3]>>
    ELSE <<>>

SelectPrice(conn, item_id) ==
    IF item_id \in DOMAIN conn.work.menu_items
    THEN <<conn.work.menu_items[item_id].price>>
    ELSE <<>>

LineTotalMut(price, qty) == price + qty

LineTotal(price, qty) == price * qty

AddTotalMut(total, line_total) == line_total

AddTotal(total, line_total) == total + line_total

\* The first loop of create_order, from cart entry i on: looks every item up,
\* raises on an unknown id, accumulates the total and the lines to insert.
\* A cart is the dict in iteration order: a sequence of <<item_id, qty>>.
RECURSIVE PriceLoopMut(_, _, _, _, _)
PriceLoopMut(conn, cart, i, total, items) ==
    IF i > Len(cart)
    THEN [err |-> "", conn |-> conn, total |-> total, items |-> items]
    ELSE LET item_id == cart[i][1]
             qty == cart[i][2]
             c1 == Read(conn, "SELECT menu_items")
             row == SelectPrice(c1, item_id)
         IN IF row = <<>>
            THEN PriceLoopMut(c1, cart, i + 1, total, items)
            ELSE LET price == row[1]
                     line_total == LineTotal(price, qty)
                 IN PriceLoopMut(c1, cart, i + 1, AddTotal(total, line_total),
                                 Append(items, <<item_id, qty, line_total>>))

RECURSIVE PriceLoop(_, _, _, _, _)
PriceLoop(conn, cart, i, total, items) ==
    IF i > Len(cart)
    THEN [err |-> "", conn |-> conn, total |-> total, items |-> items]
    ELSE LET item_id == cart[i][1]
             qty == cart[i][2]
             c1 == Read(conn, "SELECT menu_items")
             row == SelectPrice(c1, item_id)
         IN IF row = <<>>
            THEN [err |-> ItemNotFound, conn |-> c1, total |-> total, items |-> items]
            ELSE LET price == row[1]
                     line_total == LineTotal(price, qty)
                 IN PriceLoop(c1, cart, i + 1, AddTotal(total, line_total),
                              Append(items, <<item_id, qty, line_total>>))

\* "INSERT INTO orders(...)": the new row gets the next id.
InsertOrder(conn, customer_name, phone, total) ==
    LET order_id == Len(conn.work.orders) + 1
        row == [id |-> order_id, customer_name |-> customer_name, phone |-> phone,
                total |-> total]
    IN [conn EXCEPT !.work.orders = Append(@, row)]

\* The second loop of create_order, from line i on: one INSERT INTO
\* order_items per line, under CHECK(qty >= 1) and the two foreign keys.
RECURSIVE InsertLines(_, _, _, _, _)
InsertLines(conn, order_id, items, i, fault) ==
    IF i > Len(items)
    THEN [err |-> "", conn |-> conn]
    ELSE LET c1 == Issue(conn, "INSERT order_items")
             row == [id |-> Len(c1.work.order_items) + 1, order_id |-> order_id,
                     item_id |-> items[i][1], qty |-> items[i][2],
                     line_total |-> items[i][3]]
         IN IF StoreFails(c1, fault)
            THEN [err |-> StoreError, conn |-> c1]
            ELSE IF ~ (row.qty >= 1)
            THEN [err |-> CheckQtyFailed, conn |-> c1]
            ELSE InsertLines([c1 EXCEPT !.work.order_items = Append(@, row)],
                             order_id, items, i + 1, fault)

create_order(store, customer_name, phone, cart, fault) ==
    LET conn == get_conn(store, 0, <<>>)
        p == PriceLoop(conn, cart, 1, 0, <<>>)
    IN IF p.err # ""
       THEN Outcome(p.conn, p.err, 0)
       ELSE
       LET c1 == Issue(p.conn, "INSERT orders")
       IN IF StoreFails(c1, fault)
          THEN Outcome(c1, StoreError, 0)
          ELSE
          LET c2 == InsertOrder(c1, customer_name, phone, p.total)
              order_id == Len(c2.work.orders)
              l == InsertLines(c2, order_id, p.items, 1, fault)
          IN IF l.err # ""
             THEN Outcome(l.conn, l.err, 0)
             ELSE
             LET c3 == Issue(l.conn, "COMMIT")
             IN IF StoreFails(c3, fault)
                THEN Outcome(c3, StoreError, 0)
                ELSE Outcome(Commit(c3), "", order_id)

\* ------------------------------ dates ------------------------------ *
\* A text is the sequence of its characters.  dt.date.fromisoformat reads
\* the calendar-date forms YYYY-MM-DD and YYYYMMDD.
DigitValue(c) ==
    CASE c = "0" -> 0 [] c = "1" -> 1 [] c = "2" -> 2 [] c = "3" -> 3
      [] c = "4" -> 4 [] c = "5" -> 5 [] c = "6" -> 6 [] c = "7" -> 7
      [] c = "8" -> 8 [] c = "9" -> 9 [] OTHER -> -1

IsDigits(s, i, j) == \A k \in i..j : DigitValue(s[k]) >= 0

RECURSIVE ParseInt(_, _, _)
ParseInt(s, i, j) ==
    IF j < i THEN 0 ELSE 10 * ParseInt(s, i, j - 1) + DigitValue(s[j])

IsLeap(y) == y % 4 = 0 /\ (y % 100 # 0 \/ y % 400 = 0)

DaysInMonth(y, m) ==
    IF m = 2 THEN (IF IsLeap(y) THEN 29 ELSE 28)
    ELSE IF m \in {4, 6, 9, 11} THEN 30 ELSE 31

DaysBeforeYear(y) ==
    LET n == y - 1 IN n * 365 + (n \div 4) - (n \div 100) + (n \div 400)

RECURSIVE DaysBeforeMonth(_, _)
DaysBeforeMonth(y, m) ==
    IF m = 1 THEN 0 ELSE DaysBeforeMonth(y, m - 1) + DaysInMonth(y, m - 1)

\* date.toordinal()
ToOrdinal(d) == DaysBeforeYear(d.year) + DaysBeforeMonth(d.year, d.month) + d.day

InvalidIsoFormat == "ValueError: Invalid isoformat string"
MonthOutOfRange == "ValueError: month must be in 1..12"
DayOutOfRange == "ValueError: day is out of range for month"
YearOutOfRange == "ValueError: year is out of range"

\* The constructor date(year, month, day) with its range checks.
MakeDate(y, m, d) ==
    IF ~ (1 <= y /\ y <= 9999) THEN [err |-> YearOutOfRange]
    ELSE IF ~ (1 <= m /\ m <= 12) THEN [err |-> MonthOutOfRange]
    ELSE IF ~ (1 <= d /\ d <= DaysInMonth(y, m)) THEN [err |-> DayOutOfRange]
    ELSE [err |-> "", year |-> y, month |-> m, day |-> d]

fromisoformat(s) ==
    IF Len(s) = 10 /\ s[5] = "-" /\ s[8] = "-"
          /\ IsDigits(s, 1, 4) /\ IsDigits(s, 6, 7) /\ IsDigits(s, 9, 10)
    THEN MakeDate(ParseInt(s, 1, 4), ParseInt(s, 6, 7), ParseInt(s, 9, 10))
    ELSE IF Len(s) = 8 /\ IsDigits(s, 1, 8)
    THEN MakeDate(ParseInt(s, 1, 4), ParseInt(s, 5, 6), ParseInt(s, 7, 8))
    ELSE [err |-> InvalidIsoFormat]

\* (d2 - d1).days
Days(d1, d2) == ToOrdinal(d2) - ToOrdinal(d1)

\* ------------------------------ CustomerRepo ------------------------------ *
\* SQL NULL, which is no text; the NULL of an id column.
Null == <<"NULL">>
NullId == 0

\* A customers row with this id exists: ids are never handed out twice, and
\* the place of a row that was deleted keeps a row of NULLs.
HasCustomer(work, id) ==
    id \in DOMAIN work.customers /\ work.customers[id].name # Null

DatabaseLocked == "OperationalError: database is locked"

UniqueCustomerFailed == "IntegrityError: UNIQUE constraint failed: customers.name, customers.phone"

\* "SELECT id FROM customers WHERE name = ? AND IFNULL(phone,'') = ?": the ids.
SelectCustomerMut(conn, name, phone) ==
    {i \in DOMAIN conn.work.customers : conn.work.customers[i].name = name}

SelectCustomer(conn, name, phone) ==
    {i \in DOMAIN conn.work.customers :
        conn.work.customers[i].name = name /\ conn.work.customers[i].phone = phone}

Min(S) == CHOOSE x \in S : \A y \in S : x <= y

\* "UNIQUE(name, phone)" admits a row with this pair.
UniqueCustomerHoldsMut(work, name, phone) == TRUE

UniqueCustomerHolds(work, name, phone) ==
    ~ \E i \in DOMAIN work.customers :
          /\ work.customers[i].name = name
          /\ work.customers[i].phone = phone

\* ensure_customer on its own connection; stmts and log continue the
\* counters of the calling operation.
ensure_customer(store, name, phone, email, stmts, log, fault) ==
    LET conn == get_conn(store, stmts, log)
        c1 == Read(conn, "SELECT customers")
        found == SelectCustomer(c1, name, phone)
    IN IF found # {}
       THEN Outcome(c1, "", Min(found))
       ELSE
       LET c2 == Issue(c1, "INSERT customers")
           row == [id |-> Len(c2.work.customers) + 1, name |-> name,
                   phone |-> phone, email |-> email]
       IN IF StoreFails(c2, fault)
          THEN Outcome(c2, StoreError, 0)
          ELSE IF ~ UniqueCustomerHolds(c2.work, name, phone)
          THEN Outcome(c2, UniqueCustomerFailed, 0)
          ELSE
          LET c3 == Issue([c2 EXCEPT !.work.customers = Append(@, row)], "COMMIT")
          IN IF StoreFails(c3, fault)
             THEN Outcome(c3, StoreError, 0)
             ELSE Outcome(Commit(c3), "", row.id)

\* ------------------------------ paths ------------------------------ *
\* A path is a text; a place on disk is the sequence of the names that lead
\* to it from the root.  BASE_DIR is the directory of interface.py.
BASE_DIR == <<"/", "a", "p", "p">>

\* os.path.isabs
isabs(path) == path # <<>> /\ path[1] = "/"

\* os.path.join(a, b): an absolute b discards a.
join(a, b) ==
    IF isabs(b) THEN b
    ELSE IF a = <<>> \/ a[Len(a)] = "/" THEN a \o b
    ELSE a \o <<"/">> \o b

ASSETS_DIR == join(BASE_DIR, <<"a", "s", "s", "e", "t", "s">>)

\* str.rfind, counted from 1: 0 when ch is not in the text.
RFind(text, ch) ==
    IF \E i \in DOMAIN text : text[i] = ch
    THEN CHOOSE i \in DOMAIN text :
             text[i] = ch /\ \A j \in DOMAIN text : text[j] = ch => j <= i
    ELSE 0

\* os.path.splitext(path)[0]: the path without the extension of its last
\* name; leading dots of that name are no extension.
splitext(path) ==
    LET sep == RFind(path, "/")
        dot == RFind(path, ".")
    IN IF dot > sep /\ \E k \in (sep + 1)..(dot - 1) : path[k] # "."
       THEN SubSeq(path, 1, dot - 1)
       ELSE path

\* The names of a path, the texts between its slashes.
RECURSIVE Split(_)
Split(path) ==
    IF \E i \in DOMAIN path : path[i] = "/"
    THEN LET i == CHOOSE k \in DOMAIN path :
                      path[k] = "/" /\ \A j \in 1..(k - 1) : path[j] # "/"
         IN <<SubSeq(path, 1, i - 1)>> \o Split(SubSeq(path, i + 1, Len(path)))
    ELSE <<path>>

\* A place is a directory when a file lies below it.
IsDir(fs, place) ==
    \E f \in fs : Len(f) > Len(place) /\ SubSeq(f, 1, Len(place)) = place

\* The system follows the names of a path from a place: "" and "." stay,
\* ".." goes up, and every place on the way has to be a directory.
RECURSIVE Walk(_, _, _)
Walk(fs, names, place) ==
    IF names = <<>> THEN place \in fs \/ IsDir(fs, place) \/ place = <<>>
    ELSE IF ~(IsDir(fs, place) \/ place = <<>>) THEN FALSE
    ELSE IF Head(names) \in {<<>>, <<".">>} THEN Walk(fs, Tail(names), place)
    ELSE IF Head(names) = <<".", ".">>
    THEN Walk(fs, Tail(names),
              IF place = <<>> THEN place ELSE SubSeq(place, 1, Len(place) - 1))
    ELSE Walk(fs, Tail(names), Append(place, Head(names)))

\* os.path.exists of an absolute path (every path that is tested is one).
exists(fs, path) == isabs(path) /\ Walk(fs, Split(path), <<>>)

\* "for v in variants: cand = os.path.join(ASSETS_DIR, v)": the first
\* candidate that exists, from the i-th variant on.
RECURSIVE FirstVariant(_, _, _)
FirstVariant(fs, variants, i) ==
    IF i > Len(variants) THEN Null
    ELSE IF exists(fs, join(ASSETS_DIR, variants[i])) THEN join(ASSETS_DIR, variants[i])
    ELSE FirstVariant(fs, variants, i + 1)

\* resolve_image_path; None is Null.
resolve_image_path(fs, path) ==
    IF path = <<>> THEN Null
    ELSE IF isabs(path) /\ exists(fs, path) THEN path
    ELSE IF exists(fs, join(ASSETS_DIR, path)) THEN join(ASSETS_DIR, path)
    ELSE LET base == splitext(path)
         IN FirstVariant(fs, <<path,
                               base \o <<".", "p", "n", "g">>,
                               base \o <<".", "j", "p", "g">>,
                               base \o <<".", "j", "p", "e", "g">>,
                               path \o <<".", "p", "n", "g">> >>, 1)

\* ------------------------------ BookingRepo ------------------------------ *
CheckoutNotAfterCheckin == "ValueError: Check-out must be after check-in"
RoomNotFound == "ValueError: Room not found"
ForeignKeyFailed == "IntegrityError: FOREIGN KEY constraint failed"

\* A call that raises before it opened a connection.
Raise(store, err) ==
    [store |-> store, err |-> err, result |-> 0, stmts |-> 0, log |-> <<>>]

\* Lines 326-330: both dates are parsed, then the nights are checked.
NightsOkMut(nights) == nights >= 0

NightsOk(nights) == nights > 0

ValidateDates(check_in, check_out) ==
    LET d1 == fromisoformat(check_in)
    IN IF d1.err # "" THEN [err |-> d1.err, nights |-> 0]
       ELSE LET d2 == fromisoformat(check_out)
            IN IF d2.err # "" THEN [err |-> d2.err, nights |-> 0]
               ELSE LET nights == Days(d1, d2)
                    IN IF ~ NightsOk(nights)
                       THEN [err |-> CheckoutNotAfterCheckin, nights |-> nights]
                       ELSE [err |-> "", nights |-> nights]

\* "SELECT price_per_night FROM rooms WHERE id = ?": the row, or none.
SelectRoomPriceMut(conn, room_id) ==
    IF room_id \in DOMAIN conn.work.rooms
    THEN <<conn.work.rooms[room_id].price_per_night>>
    ELSE <<0>>

SelectRoomPrice(conn, room_id) ==
    IF room_id \in DOMAIN conn.work.rooms
    THEN <<conn.work.rooms[room_id].price_per_night>>
    ELSE <<>>

BookingTotalMut(price, nights) == price + nights

BookingTotal(price, nights) == price * nights

\* "INSERT INTO bookings(...)" under the two foreign keys.
InsertBookingMut(conn, cust_id, room_id, check_in, check_out, nights, total) ==
    LET row == [id |-> Len(conn.work.bookings) + 1, customer_id |-> cust_id,
                room_id |-> room_id, check_in |-> check_in, check_out |-> check_out,
                nights |-> nights, total |-> total, status |-> "Booked"]
    IN IF /\ HasCustomer(conn.work, cust_id) /\ room_id \in DOMAIN conn.work.rooms
          /\ conn.work.rooms[room_id].is_active = 1
          /\ \A i \in DOMAIN conn.work.bookings : conn.work.bookings[i].room_id # room_id
       THEN [err |-> "", conn |-> [conn EXCEPT !.work.bookings = Append(@, row)]]
       ELSE [err |-> ForeignKeyFailed, conn |-> conn]

InsertBooking(conn, cust_id, room_id, check_in, check_out, nights, total) ==
    LET row == [id |-> Len(conn.work.bookings) + 1, customer_id |-> cust_id,
                room_id |-> room_id, check_in |-> check_in, check_out |-> check_out,
                nights |-> nights, total |-> total, status |-> "Booked"]
    IN IF HasCustomer(conn.work, cust_id) /\ room_id \in DOMAIN conn.work.rooms
       THEN [err |-> "", conn |-> [conn EXCEPT !.work.bookings = Append(@, row)]]
       ELSE [err |-> ForeignKeyFailed, conn |-> conn]

\* Lines 340-347, on the connection conn of create_booking.  ensure_customer
\* opens, commits and closes a connection of its own; conn has issued no
\* write statement by then, so its next statement sees the store as
\* ensure_customer left it.
BookRoom(conn, customer_name, phone, room_id, check_in, check_out, nights, price, fault) ==
    LET total == BookingTotal(price, nights)
        e == ensure_customer(conn.store, customer_name, phone, "", conn.stmts, conn.log, fault)
        c1 == [store |-> e.store, work |-> e.store, stmts |-> e.stmts, log |-> e.log]
    IN IF e.err # ""
       THEN Outcome(c1, e.err, 0)
       ELSE
       LET cust_id == e.result
           c2 == Issue(c1, "INSERT bookings")
           ins == InsertBooking(c2, cust_id, room_id, check_in, check_out, nights, total)
       IN IF StoreFails(c2, fault)
          THEN Outcome(c2, StoreError, 0)
          ELSE IF ins.err # ""
          THEN Outcome(ins.conn, ins.err, 0)
          ELSE
          LET c3 == Issue(ins.conn, "COMMIT")
          IN IF StoreFails(c3, fault)
             THEN Outcome(c3, StoreError, 0)
             ELSE Outcome(Commit(c3), "", Len(c3.work.bookings))

\* The room is looked up before the dates are validated.
create_bookingMut(store, customer_name, phone, room_id, check_in, check_out, fault) ==
    LET conn == Read(get_conn(store, 0, <<>>), "SELECT rooms")
        row == SelectRoomPrice(conn, room_id)
        v == ValidateDates(check_in, check_out)
    IN IF row = <<>>
       THEN Outcome(conn, RoomNotFound, 0)
       ELSE IF v.err # ""
       THEN Outcome(conn, v.err, 0)
       ELSE BookRoom(conn, customer_name, phone, room_id, check_in, check_out,
                     v.nights, row[1], fault)

create_booking(store, customer_name, phone, room_id, check_in, check_out, fault) ==
    LET v == ValidateDates(check_in, check_out)
    IN IF v.err # ""
       THEN Raise(store, v.err)
       ELSE
       LET conn == Read(get_conn(store, 0, <<>>), "SELECT rooms")
           row == SelectRoomPrice(conn, room_id)
       IN IF row = <<>>
          THEN Outcome(conn, RoomNotFound, 0)
          ELSE BookRoom(conn, customer_name, phone, room_id, check_in, check_out,
                        v.nights, row[1], fault)

\* ------------------------------ TicketRepo ------------------------------ *
\* "INSERT INTO tickets(...)" under the customer foreign key.
InsertTicketMut(conn, cust_id, category, subject, message) ==
    LET known == \E r \in conn.work.ticket_categories : r.name = category /\ r.is_active = 1
        row == [id |-> Len(conn.work.tickets) + 1, customer_id |-> cust_id,
                category |-> IF known THEN category ELSE "Other", subject |-> subject,
                message |-> message, status |-> "Open"]
    IN IF HasCustomer(conn.work, cust_id)
       THEN [err |-> "", conn |-> [conn EXCEPT !.work.tickets = Append(@, row)]]
       ELSE [err |-> ForeignKeyFailed, conn |-> conn]

InsertTicket(conn, cust_id, category, subject, message) ==
    LET row == [id |-> Len(conn.work.tickets) + 1, customer_id |-> cust_id,
                category |-> category, subject |-> subject, message |-> message,
                status |-> "Open"]
    IN IF HasCustomer(conn.work, cust_id)
       THEN [err |-> "", conn |-> [conn EXCEPT !.work.tickets = Append(@, row)]]
       ELSE [err |-> ForeignKeyFailed, conn |-> conn]

\* ensure_customer runs first, on its own connection, and commits; the
\* ticket is then inserted on a second connection.
create_ticket(store, name, phone, category, subject, message, fault) ==
    LET e == ensure_customer(store, name, phone, "", 0, <<>>, fault)
    IN IF e.err # ""
       THEN e
       ELSE
       LET cust_id == e.result
           c1 == Issue(get_conn(e.store, e.stmts, e.log), "INSERT tickets")
           ins == InsertTicket(c1, cust_id, category, subject, message)
       IN IF StoreFails(c1, fault)
          THEN Outcome(c1, StoreError, 0)
          ELSE IF ins.err # ""
          THEN Outcome(ins.conn, ins.err, 0)
          ELSE
          LET c2 == Issue(ins.conn, "COMMIT")
          IN IF StoreFails(c2, fault)
             THEN Outcome(c2, StoreError, 0)
             ELSE Outcome(Commit(c2), "", Len(c2.work.tickets))

\* ------------------------------ TicketCategoryRepo ------------------------------ *
\* "INSERT OR IGNORE INTO ticket_categories(name) VALUES (?)": AUTOINCREMENT
\* hands out the id after the largest one ever handed out, also when the row
\* is then ignored because the name exists.
InsertOrIgnoreCategoryMut(conn, name) ==
    LET id == conn.work.category_seq + 1
        row == [id |-> id, name |-> name, is_active |-> 1]
    IN [conn EXCEPT !.work.category_seq = id,
                    !.work.ticket_categories = {r \in @ : r.name # name} \cup {row}]

InsertOrIgnoreCategory(conn, name) ==
    LET id == conn.work.category_seq + 1
        row == [id |-> id, name |-> name, is_active |-> 1]
    IN IF \E r \in conn.work.ticket_categories : r.name = name
       THEN [conn EXCEPT !.work.category_seq = id]
       ELSE [conn EXCEPT !.work.category_seq = id,
                         !.work.ticket_categories = @ \cup {row}]

\* The names of a set of rows by id, ascending or descending.
RECURSIVE NamesByIdOrder(_, _)
NamesByIdOrder(rows, ascending) ==
    IF rows = {} THEN <<>>
    ELSE LET first == CHOOSE r \in rows : \A q \in rows :
                          IF ascending THEN r.id <= q.id ELSE r.id >= q.id
         IN <<first.name>> \o NamesByIdOrder(rows \ {first}, ascending)

\* "SELECT name FROM ticket_categories WHERE is_active = 1 ORDER BY id"
list_activeMut(store) ==
    LET c1 == Read(get_conn(store, 0, <<>>), "SELECT ticket_categories")
        rows == {r \in c1.work.ticket_categories : r.is_active = 1}
    IN Outcome(c1, "", NamesByIdOrder(rows, FALSE))

list_active(store) ==
    LET c1 == Read(get_conn(store, 0, <<>>), "SELECT ticket_categories")
        rows == {r \in c1.work.ticket_categories : r.is_active = 1}
    IN Outcome(c1, "", NamesByIdOrder(rows, TRUE))

addMut(store, name) ==
    LET c1 == Issue(get_conn(store, 0, <<>>), "INSERT ticket_categories")
        id == c1.work.category_seq + 1
        c2 == [c1 EXCEPT !.work.category_seq = id,
                         !.work.ticket_categories =
                             @ \cup {[id |-> id, name |-> name, is_active |-> 1]}]
    IN Outcome(Commit(Issue(c2, "COMMIT")), "", 0)

add(store, name) ==
    LET c1 == Issue(get_conn(store, 0, <<>>), "INSERT ticket_categories")
        c2 == Issue(InsertOrIgnoreCategory(c1, name), "COMMIT")
    IN Outcome(Commit(c2), "", 0)

\* ------------------------------ listings ------------------------------ *
UpperLetters ==
    <<"A", "B", "C", "D", "E", "F", "G", "H", "I", "J", "K", "L", "M",
      "N", "O", "P", "Q", "R", "S", "T", "U", "V", "W", "X", "Y", "Z">>

LowerLetters ==
    <<"a", "b", "c", "d", "e", "f", "g", "h", "i", "j", "k", "l", "m",
      "n", "o", "p", "q", "r", "s", "t", "u", "v", "w", "x", "y", "z">>

\* SQLite's LIKE compares the 26 ASCII letters without regard to case.
FoldMut(ch) == ch

Fold(ch) ==
    IF \E i \in DOMAIN UpperLetters : UpperLetters[i] = ch
    THEN LowerLetters[CHOOSE i \in DOMAIN UpperLetters : UpperLetters[i] = ch]
    ELSE ch

\* text LIKE pattern: % stands for any run of characters, _ for any one.
RECURSIVE Like(_, _)
Like(pattern, text) ==
    IF pattern = <<>> THEN text = <<>>
    ELSE IF Head(pattern) = "%"
    THEN \E k \in 0..Len(text) : Like(Tail(pattern), SubSeq(text, k + 1, Len(text)))
    ELSE IF text = <<>> THEN FALSE
    ELSE IF Head(pattern) = "_" THEN Like(Tail(pattern), Tail(text))
    ELSE Fold(Head(pattern)) = Fold(Head(text)) /\ Like(Tail(pattern), Tail(text))

\* "if name: sql += ' AND ... LIKE ?'; params.append(f'%{name}%')"
FilterKeeps(filter, value) ==
    filter = <<>> \/ Like(<<"%">> \o filter \o <<"%">>, value)

\* "ORDER BY id DESC" of the rows with these ids.
RECURSIVE OrderByIdDescMut(_)
OrderByIdDescMut(ids) ==
    IF ids = {} THEN <<>>
    ELSE LET m == CHOOSE x \in ids : \A y \in ids : x <= y
         IN <<m>> \o OrderByIdDescMut(ids \ {m})

RECURSIVE OrderByIdDesc(_)
OrderByIdDesc(ids) ==
    IF ids = {} THEN <<>>
    ELSE LET m == CHOOSE x \in ids : \A y \in ids : x >= y
         IN <<m>> \o OrderByIdDesc(ids \ {m})

\* Rows are (id, customer_name, phone, total); created_at is left out.
list_orders(store, name, phone) ==
    LET c1 == Read(get_conn(store, 0, <<>>), "SELECT orders")
        t == c1.work.orders
        ids == {i \in DOMAIN t : /\ FilterKeeps(name, t[i].customer_name)
                                 /\ FilterKeeps(phone, t[i].phone)}
        order == OrderByIdDesc(ids)
    IN Outcome(c1, "", [k \in DOMAIN order |->
           <<t[order[k]].id, t[order[k]].customer_name, t[order[k]].phone,
             t[order[k]].total>>])

\* A booking joined with its customer and its room:
\* (id, name, phone, room_no, room_type, nights, total, status).
BookingRow(work, i) ==
    LET b == work.bookings[i]
        c == work.customers[b.customer_id]
        r == work.rooms[b.room_id]
    IN <<b.id, c.name, c.phone, r.room_no, r.room_type, b.nights, b.total, b.status>>

\* "FROM bookings b JOIN customers c ON ... JOIN rooms r ON ...": the ids.
JoinedBookingsMut(work) ==
    {i \in DOMAIN work.bookings :
        /\ HasCustomer(work, work.bookings[i].customer_id)
        /\ work.bookings[i].room_id \in DOMAIN work.rooms
        /\ work.rooms[work.bookings[i].room_id].is_active = 1}

JoinedBookings(work) ==
    {i \in DOMAIN work.bookings :
        /\ HasCustomer(work, work.bookings[i].customer_id)
        /\ work.bookings[i].room_id \in DOMAIN work.rooms}

list_bookings(store) ==
    LET c1 == Read(get_conn(store, 0, <<>>), "SELECT bookings")
        order == OrderByIdDesc(JoinedBookings(c1.work))
    IN Outcome(c1, "", [k \in DOMAIN order |-> BookingRow(c1.work, order[k])])

list_bookings_filtered(store, name, phone) ==
    LET c1 == Read(get_conn(store, 0, <<>>), "SELECT bookings")
        ids == {i \in JoinedBookings(c1.work) :
                   /\ FilterKeeps(name, BookingRow(c1.work, i)[2])
                   /\ FilterKeeps(phone, BookingRow(c1.work, i)[3])}
        order == OrderByIdDesc(ids)
    IN Outcome(c1, "", [k \in DOMAIN order |-> BookingRow(c1.work, order[k])])

\* A ticket LEFT JOINed with its customer: (id, name, phone, category,
\* subject, status); name and phone are NULL for a ticket without customer.
TicketRow(work, i) ==
    LET t == work.tickets[i]
        known == HasCustomer(work, t.customer_id)
    IN <<t.id,
         IF known THEN work.customers[t.customer_id].name ELSE Null,
         IF known THEN work.customers[t.customer_id].phone ELSE Null,
         t.category, t.subject, t.status>>

\* "FROM tickets t LEFT JOIN customers c ON c.id = t.customer_id": the ids.
JoinedTicketsMut(work) ==
    {i \in DOMAIN work.tickets : HasCustomer(work, work.tickets[i].customer_id)}

JoinedTickets(work) == DOMAIN work.tickets

list_tickets(store) ==
    LET c1 == Read(get_conn(store, 0, <<>>), "SELECT tickets")
        order == OrderByIdDesc(JoinedTickets(c1.work))
    IN Outcome(c1, "", [k \in DOMAIN order |-> TicketRow(c1.work, order[k])])

\* "AND c.name LIKE ?" is NULL, and the row dropped, when the name is NULL.
NameFilterKeeps(filter, value) ==
    filter = <<>> \/ (value # Null /\ Like(<<"%">> \o filter \o <<"%">>, value))

\* "AND IFNULL(c.phone,'') LIKE ?"
IfNull(value, default) == IF value = Null THEN default ELSE value

list_tickets_filtered(store, name, phone) ==
    LET c1 == Read(get_conn(store, 0, <<>>), "SELECT tickets")
        ids == {i \in JoinedTickets(c1.work) :
                   /\ NameFilterKeeps(name, TicketRow(c1.work, i)[2])
                   /\ FilterKeeps(phone, IfNull(TicketRow(c1.work, i)[3], <<>>))}
        order == OrderByIdDesc(ids)
    IN Outcome(c1, "", [k \in DOMAIN order |-> TicketRow(c1.work, order[k])])

\* ------------------------------ RoomRepo ------------------------------ *
\* Texts of digits in the order of their characters (room_no TEXT).
RECURSIVE TextLess(_, _)
TextLess(a, b) ==
    IF b = <<>> THEN FALSE
    ELSE IF a = <<>> THEN TRUE
    ELSE IF Head(a) = Head(b) THEN TextLess(Tail(a), Tail(b))
    ELSE DigitValue(Head(a)) < DigitValue(Head(b))

\* "ORDER BY room_no" of the rooms with these ids.
RECURSIVE OrderByRoomNo(_, _)
OrderByRoomNo(work, ids) ==
    IF ids = {} THEN <<>>
    ELSE LET m == CHOOSE x \in ids : \A y \in ids :
                      x = y \/ TextLess(work.rooms[x].room_no, work.rooms[y].room_no)
         IN <<m>> \o OrderByRoomNo(work, ids \ {m})

\* "SELECT id, room_no, room_type, price_per_night FROM rooms
\*  WHERE is_active = 1 ORDER BY room_no"
RoomRepo_list_activeMut(store) ==
    LET c1 == Read(get_conn(store, 0, <<>>), "SELECT rooms")
        order == OrderByRoomNo(c1.work, DOMAIN c1.work.rooms)
    IN Outcome(c1, "", [k \in DOMAIN order |->
           <<c1.work.rooms[order[k]].id, c1.work.rooms[order[k]].room_no,
             c1.work.rooms[order[k]].room_type, c1.work.rooms[order[k]].price_per_night>>])

RoomRepo_list_active(store) ==
    LET c1 == Read(get_conn(store, 0, <<>>), "SELECT rooms")
        ids == {i \in DOMAIN c1.work.rooms : c1.work.rooms[i].is_active = 1}
        order == OrderByRoomNo(c1.work, ids)
    IN Outcome(c1, "", [k \in DOMAIN order |->
           <<c1.work.rooms[order[k]].id, c1.work.rooms[order[k]].room_no,
             c1.work.rooms[order[k]].room_type, c1.work.rooms[order[k]].price_per_night>>])

\* ------------------------------ init_db ------------------------------ *
\* "INSERT OR IGNORE INTO menu_items(...)" for the seed rows from i on: a row
\* whose name exists is ignored.
RECURSIVE SeedMenu(_, _)
SeedMenu(conn, i) ==
    IF i > Len(MENU_SEED) THEN conn
    ELSE LET c1 == Issue(conn, "INSERT menu_items")
             row == [id |-> Len(c1.work.menu_items) + 1, name |-> MENU_SEED[i][1],
                     category |-> MENU_SEED[i][2], price |-> MENU_SEED[i][3],
                     image_path |-> MENU_SEED[i][4], is_active |-> 1]
         IN IF \E k \in DOMAIN c1.work.menu_items : c1.work.menu_items[k].name = row.name
            THEN SeedMenu(c1, i + 1)
            ELSE SeedMenu([c1 EXCEPT !.work.menu_items = Append(@, row)], i + 1)

\* "INSERT OR IGNORE INTO rooms(...)" for the seed rows from i on.
RECURSIVE SeedRooms(_, _)
SeedRooms(conn, i) ==
    IF i > Len(ROOMS_SEED) THEN conn
    ELSE LET c1 == Issue(conn, "INSERT rooms")
             row == [id |-> Len(c1.work.rooms) + 1, room_no |-> ROOMS_SEED[i][1],
                     room_type |-> ROOMS_SEED[i][2], price_per_night |-> ROOMS_SEED[i][3],
                     is_active |-> 1]
         IN IF \E k \in DOMAIN c1.work.rooms : c1.work.rooms[k].room_no = row.room_no
            THEN SeedRooms(c1, i + 1)
            ELSE SeedRooms([c1 EXCEPT !.work.rooms = Append(@, row)], i + 1)

\* "if FORCE_CATEGORY_SET: DELETE FROM ticket_categories"
ClearCategoriesMut(conn, force) == conn

ClearCategories(conn, force) ==
    IF force
    THEN [Issue(conn, "DELETE ticket_categories") EXCEPT !.work.ticket_categories = {}]
    ELSE conn

RECURSIVE SeedCategories(_, _)
SeedCategories(conn, i) ==
    IF i > Len(SUPPORT_CATEGORIES_DEFAULT) THEN conn
    ELSE SeedCategories(
             InsertOrIgnoreCategory(Issue(conn, "INSERT ticket_categories"),
                                    SUPPORT_CATEGORIES_DEFAULT[i]),
             i + 1)

\* init_db on a store whose tables exist: CREATE TABLE IF NOT EXISTS and the
\* two column migrations change nothing; force is FORCE_CATEGORY_SET.
init_dbMut(store, seed, force) ==
    LET conn == get_conn(store, 0, <<>>)
        c0 == [conn EXCEPT !.work.orders = <<>>, !.work.order_items = <<>>,
                           !.work.bookings = <<>>, !.work.tickets = <<>>,
                           !.work.customers = <<>>]
        c1 == IF seed
              THEN SeedCategories(ClearCategories(SeedRooms(SeedMenu(c0, 1), 1), force), 1)
              ELSE c0
    IN Outcome(Commit(Issue(c1, "COMMIT")), "", 0)

init_db(store, seed, force) ==
    LET conn == get_conn(store, 0, <<>>)
        c1 == IF seed
              THEN SeedCategories(ClearCategories(SeedRooms(SeedMenu(conn, 1), 1), force), 1)
              ELSE conn
    IN Outcome(Commit(Issue(c1, "COMMIT")), "", 0)

\* ------------------------------ inputs ------------------------------ *
\* Cart entries <<item_id, qty>>: two menu items, a quantity the store
\* rejects, an id that is not in menu_items.
CartEntries == {<<1, 1>>, <<2, 2>>, <<2, 0>>, <<99, 1>>}

\* Carts: a dict has one entry per item id, in insertion order.
Carts ==
    UNION { { c \in [1..n -> CartEntries] :
                \A i, j \in 1..n : c[i][1] = c[j][1] => i = j } : n \in 0..MaxCart }

\* Write statements a create_order call can issue: orders, the lines, COMMIT.
OrderFaults == 0..(MaxCart + 2)

\* Texts of the requests.
NoText == <<>>
Ann == <<"A", "n", "n">>
Joanna == <<"J", "o", "a", "n", "n", "a">>
P0300 == <<"0", "3", "0", "0">>
P0411 == <<"0", "4", "1", "1">>
Leak == <<"L", "e", "a", "k">>
Ann_lower == <<"a", "n", "n">>
Jo == <<"J", "o">>
A_n == <<"A", "_", "n">>
P03 == <<"0", "3">>
P04 == <<"0", "4">>

\* Callers: <<name, phone>>.
Callers == {<<Ann, P0300>>, <<Ann, NoText>>}

T_2025_01_10 == <<"2", "0", "2", "5", "-", "0", "1", "-", "1", "0">>
T_2025_01_13 == <<"2", "0", "2", "5", "-", "0", "1", "-", "1", "3">>
T_2024_12_31 == <<"2", "0", "2", "4", "-", "1", "2", "-", "3", "1">>
T_2025_02_30 == <<"2", "0", "2", "5", "-", "0", "2", "-", "3", "0">>
T_10_01_2025 == <<"1", "0", "/", "0", "1", "/", "2", "0", "2", "5">>

\* <<check_in, check_out>>: three nights, no night, a negative span, an
\* unreadable text, an impossible day.
Stays ==
    { <<T_2025_01_10, T_2025_01_13>>, <<T_2025_01_10, T_2025_01_10>>,
      <<T_2025_01_13, T_2025_01_10>>, <<T_10_01_2025, T_2025_01_13>>,
      <<T_2025_01_10, T_2025_02_30>> }

\* <<room_id, stay>>: every stay in room 102 of the seed and in a room that
\* is not in rooms, and ten nights over the end of a year in room 201.
BookingRequests ==
    ({2, 9} \X Stays) \cup {<<3, <<T_2024_12_31, T_2025_01_10>>>>}

\* Write statements a create_booking call can issue: the customer INSERT and
\* COMMIT of ensure_customer, the booking INSERT and COMMIT.
BookingFaults == 0..4

\* <<category, subject, message>>: a seeded category, and a category that is
\* not in ticket_categories with an empty subject.
TicketRequests == {<<"Other", Leak, "Tap drips">>, <<"Spa", NoText, "">>}

\* Write statements a create_ticket call can issue: the customer INSERT and
\* COMMIT of ensure_customer, the ticket INSERT and COMMIT.
TicketFaults == 0..4

\* ------------------------------ actions ------------------------------ *
App == <<"a", "p", "p">>
Assets == <<"a", "s", "s", "e", "t", "s">>
HotelDb == <<"h", "o", "t", "e", "l", ".", "d", "b">>

\* What main() leaves on disk before any call: hotel.db, and the assets
\* directory (os.makedirs); an empty directory is the entry of no name in it.
FilesOfMain == { <<App, HotelDb>>, <<App, Assets, <<>>>> }

\* The two processes of the concurrent ensure_customer calls.
Procs == {1, 2}

NoCall == [pc |-> "idle"]

\* main() has run, the POS form is empty, no process is in a call.
InitOutside ==
    /\ files = FilesOfMain
    /\ pos_cart = <<>>
    /\ name_var = NoText
    /\ phone_var = NoText
    /\ calls = [p \in Procs |-> NoCall]

Init ==
    /\ menu_items = init_db_menu
    /\ rooms = init_db_rooms
    /\ orders = <<>>
    /\ order_items = <<>>
    /\ customers = <<>>
    /\ bookings = <<>>
    /\ tickets = <<>>
    /\ ticket_categories = init_db_categories
    /\ category_seq = Len(SUPPORT_CATEGORIES_DEFAULT)
    /\ last = [op |-> "init_db", args |-> <<>>, err |-> "", result |-> 0, log |-> <<>>]
    /\ InitOutside

CreateOrder(customer_name, phone, cart, fault) ==
    /\ Len(orders) < MaxOrders
    /\ LET r == create_order(Store, customer_name, phone, cart, fault)
       IN /\ fault <= r.stmts
          /\ SetStore(r.store)
          /\ last' = [op |-> "create_order", args |-> <<customer_name, phone, cart, fault>>,
                      err |-> r.err, result |-> r.result, log |-> r.log]

CreateBooking(customer_name, phone, room_id, check_in, check_out, fault) ==
    /\ Len(bookings) < MaxBookings
    /\ LET r == create_booking(Store, customer_name, phone, room_id, check_in, check_out, fault)
       IN /\ fault <= r.stmts
          /\ SetStore(r.store)
          /\ last' = [op |-> "create_booking",
                      args |-> <<customer_name, phone, room_id, check_in, check_out, fault>>,
                      err |-> r.err, result |-> r.result, log |-> r.log]

CreateTicket(name, phone, category, subject, message, fault) ==
    /\ Len(tickets) < MaxTickets
    /\ LET r == create_ticket(Store, name, phone, category, subject, message, fault)
       IN /\ fault <= r.stmts
          /\ SetStore(r.store)
          /\ last' = [op |-> "create_ticket",
                      args |-> <<name, phone, category, subject, message, fault>>,
                      err |-> r.err, result |-> r.result, log |-> r.log]

EnsureCustomer(name, phone, fault) ==
    LET r == ensure_customer(Store, name, phone, "", 0, <<>>, fault)
    IN /\ fault <= r.stmts
       /\ SetStore(r.store)
       /\ last' = [op |-> "ensure_customer", args |-> <<name, phone, fault>>,
                   err |-> r.err, result |-> r.result, log |-> r.log]

NextOrders ==
    \E cart \in Carts, f \in OrderFaults :
        CreateOrder(Ann, P0300, cart, f)

SpecOrders == Init /\ [][NextOrders]_vars

NextBookings ==
    \E c \in Callers, q \in BookingRequests, f \in BookingFaults :
        CreateBooking(c[1], c[2], q[1], q[2][1], q[2][2], f)

SpecBookings == Init /\ [][NextBookings]_vars

NextTickets ==
    \E c \in Callers, q \in TicketRequests, f \in TicketFaults :
        CreateTicket(c[1], c[2], q[1], q[2], q[3], f)

SpecTickets == Init /\ [][NextTickets]_vars

\* <<name, phone>>: one name with a phone and without, and a second name
\* with the phone of the first.
CustomerCallers == {<<Ann, P0300>>, <<Ann, NoText>>, <<Joanna, P0300>>}

\* Write statements an ensure_customer call can issue: INSERT and COMMIT.
CustomerFaults == 0..2

NextCustomers ==
    \/ \E c \in CustomerCallers, f \in CustomerFaults :
          EnsureCustomer(c[1], c[2], f)
    \/ \E c \in CustomerCallers :
          CreateBooking(c[1], c[2], 2, T_2025_01_10, T_2025_01_13, 0)
    \/ \E c \in CustomerCallers :
          CreateTicket(c[1], c[2], "Other", Leak, "Tap drips", 0)

SpecCustomers == Init /\ [][NextCustomers]_vars

\* Category names: one that is not in the canonical list, a second one, and
\* one of the canonical list.
CategoryNames == {"Spa", "Airport", "Other"}

AddCategory(name) ==
    /\ category_seq < MaxCategorySeq
    /\ LET r == add(Store, name)
       IN /\ SetStore(r.store)
          /\ last' = [op |-> "add", args |-> <<name>>,
                      err |-> r.err, result |-> r.result, log |-> r.log]

ListActive ==
    LET r == list_active(Store)
    IN /\ SetStore(r.store)
       /\ last' = [op |-> "list_active", args |-> <<>>,
                   err |-> r.err, result |-> r.result, log |-> r.log]

\* The application starts again on the same hotel.db: main() calls
\* init_db(seed=True); init_db(seed=False) is the default of the signature.
InitDb(seed, force) ==
    /\ category_seq + Len(SUPPORT_CATEGORIES_DEFAULT) <= MaxCategorySeq
    /\ LET r == init_db(Store, seed, force)
       IN /\ SetStore(r.store)
          /\ last' = [op |-> "init_db", args |-> <<seed, force>>,
                      err |-> r.err, result |-> r.result, log |-> r.log]

NextCategories ==
    \/ \E name \in CategoryNames : AddCategory(name)
    \/ ListActive
    \/ \E seed \in BOOLEAN : InitDb(seed, FORCE_CATEGORY_SET)

SpecCategories == Init /\ [][NextCategories]_vars

\* Tickets next to a registry that changes.
NextSupport ==
    \/ \E c \in Callers, q \in TicketRequests, f \in {0, 3} :
          CreateTicket(c[1], c[2], q[1], q[2], q[3], f)
    \/ AddCategory("Spa")
    \/ InitDb(TRUE, FORCE_CATEGORY_SET)

SpecSupport == Init /\ [][NextSupport]_vars

\* A build with FORCE_CATEGORY_SET = False that starts on a hotel.db an
\* earlier run left behind: <<ticket_categories, sqlite_sequence>> is an empty
\* table, a table with an inactive canonical row and an added category, or
\* the table of the first seeding.
LegacyRegistries ==
    { <<{}, 0>>,
      <<{[id |-> 1, name |-> "Other", is_active |-> 0],
         [id |-> 2, name |-> "Spa", is_active |-> 1]}, 2>>,
      <<{[id |-> 1, name |-> "Laundry", is_active |-> 1],
         [id |-> 3, name |-> "Airport", is_active |-> 1],
         [id |-> 4, name |-> "Room Cleaning", is_active |-> 1]}, 5>>,
      <<init_db_categories, Len(SUPPORT_CATEGORIES_DEFAULT)>> }

InitLegacy ==
    /\ menu_items = init_db_menu
    /\ rooms = init_db_rooms
    /\ orders = <<>>
    /\ order_items = <<>>
    /\ customers = <<>>
    /\ bookings = <<>>
    /\ tickets = <<>>
    /\ \E reg \in LegacyRegistries :
          /\ ticket_categories = reg[1]
          /\ category_seq = reg[2]
    /\ last = [op |-> "start", args |-> <<>>, err |-> "", result |-> 0, log |-> <<>>]
    /\ InitOutside

NextNoForce ==
    \/ \E name \in CategoryNames : AddCategory(name)
    \/ ListActive
    \/ \E seed \in BOOLEAN : InitDb(seed, FALSE)

SpecNoForce == InitLegacy /\ [][NextNoForce]_vars

\* Fewer than MaxRows orders, bookings and tickets are stored.
RowsLeft == Len(orders) + Len(bookings) + Len(tickets) < MaxRows

ListOrders(name, phone) ==
    LET r == list_orders(Store, name, phone)
    IN /\ SetStore(r.store)
       /\ last' = [op |-> "list_orders", args |-> <<name, phone>>,
                   err |-> r.err, result |-> r.result, log |-> r.log]

ListBookings ==
    LET r == list_bookings(Store)
    IN /\ SetStore(r.store)
       /\ last' = [op |-> "list_bookings", args |-> <<>>,
                   err |-> r.err, result |-> r.result, log |-> r.log]

ListBookingsFiltered(name, phone) ==
    LET r == list_bookings_filtered(Store, name, phone)
    IN /\ SetStore(r.store)
       /\ last' = [op |-> "list_bookings_filtered", args |-> <<name, phone>>,
                   err |-> r.err, result |-> r.result, log |-> r.log]

ListTickets ==
    LET r == list_tickets(Store)
    IN /\ SetStore(r.store)
       /\ last' = [op |-> "list_tickets", args |-> <<>>,
                   err |-> r.err, result |-> r.result, log |-> r.log]

ListTicketsFiltered(name, phone) ==
    LET r == list_tickets_filtered(Store, name, phone)
    IN /\ SetStore(r.store)
       /\ last' = [op |-> "list_tickets_filtered", args |-> <<name, phone>>,
                   err |-> r.err, result |-> r.result, log |-> r.log]

ListRooms ==
    LET r == RoomRepo_list_active(Store)
    IN /\ SetStore(r.store)
       /\ last' = [op |-> "RoomRepo.list_active", args |-> <<>>,
                   err |-> r.err, result |-> r.result, log |-> r.log]

\* The room's active flag is cleared in the store (no operation of the
\* source writes rooms.is_active; the schema has the column).
SetRoomInactive(room_id) ==
    /\ room_id \in DOMAIN rooms
    /\ rooms[room_id].is_active = 1
    /\ rooms' = [rooms EXCEPT ![room_id].is_active = 0]
    /\ last' = [op |-> "set_room_inactive", args |-> <<room_id>>,
                err |-> "", result |-> 0, log |-> <<>>]
    /\ UNCHANGED outside
    /\ UNCHANGED <<menu_items, orders, order_items, customers, bookings, tickets,
                   ticket_categories, category_seq>>

\* The price of a menu item is changed in the store (no operation of the
\* source writes menu_items.price after the seeding).
SetMenuPrice(item_id, price) ==
    /\ item_id \in DOMAIN menu_items
    /\ menu_items[item_id].price # price
    /\ menu_items' = [menu_items EXCEPT ![item_id].price = price]
    /\ last' = [op |-> "set_menu_price", args |-> <<item_id, price>>,
                err |-> "", result |-> 0, log |-> <<>>]
    /\ UNCHANGED outside
    /\ UNCHANGED <<rooms, orders, order_items, customers, bookings, tickets,
                   ticket_categories, category_seq>>

\* A customers row is deleted in the store (no operation of the source
\* deletes one): "ON DELETE RESTRICT" of bookings.customer_id refuses it
\* while a booking has the customer, "ON DELETE SET NULL" of
\* tickets.customer_id clears the reference of the customer's tickets.
DeleteCustomer(id) ==
    /\ HasCustomer(Store, id)
    /\ \A i \in DOMAIN bookings : bookings[i].customer_id # id
    /\ customers' = [customers EXCEPT ![id] =
                        [id |-> id, name |-> Null, phone |-> Null, email |-> ""]]
    /\ tickets' = [i \in DOMAIN tickets |->
                      IF tickets[i].customer_id = id
                      THEN [tickets[i] EXCEPT !.customer_id = NullId]
                      ELSE tickets[i]]
    /\ last' = [op |-> "delete_customer", args |-> <<id>>,
                err |-> "", result |-> 0, log |-> <<>>]
    /\ UNCHANGED outside
    /\ UNCHANGED <<menu_items, rooms, orders, order_items, bookings,
                   ticket_categories, category_seq>>

\* <<name, phone>> of the records that are listed.
ListCallers == {<<Ann, P0300>>, <<Joanna, P0411>>}

\* <<name filter, phone filter>>: none, a name in another letter case, the
\* start of one name, a phone, both, and a name with an underscore.
Filters ==
    { <<NoText, NoText>>, <<Ann_lower, NoText>>, <<Jo, NoText>>, <<NoText, P03>>,
      <<Ann_lower, P04>>, <<A_n, NoText>> }

NextLists ==
    \/ /\ RowsLeft
       /\ \E c \in ListCallers : CreateOrder(c[1], c[2], <<<<1, 1>>>>, 0)
    \/ /\ RowsLeft
       /\ \E c \in ListCallers :
             CreateBooking(c[1], c[2], 2, T_2025_01_10, T_2025_01_13, 0)
    \/ /\ RowsLeft
       /\ \E c \in ListCallers : CreateTicket(c[1], c[2], "Other", Leak, "Tap drips", 0)
    \/ \E f \in Filters : ListOrders(f[1], f[2])
    \/ \E f \in Filters : ListBookingsFiltered(f[1], f[2])
    \/ \E f \in Filters : ListTicketsFiltered(f[1], f[2])
    \/ ListBookings
    \/ ListTickets

SpecLists == Init /\ [][NextLists]_vars

\* Bookings of two rooms, rooms that are set inactive, and the listings.
NextRooms ==
    \/ \E c \in ListCallers, room_id \in {2, 3} :
          CreateBooking(c[1], c[2], room_id, T_2025_01_10, T_2025_01_13, 0)
    \/ \E room_id \in {2, 3} : SetRoomInactive(room_id)
    \/ ListRooms
    \/ ListBookings
    \/ \E f \in {<<NoText, NoText>>, <<Jo, NoText>>} : ListBookingsFiltered(f[1], f[2])

SpecRooms == Init /\ [][NextRooms]_vars

\* ensure_customer run by two processes, each on its own handle, one
\* statement at a time: the SELECT, the INSERT (which opens the write
\* transaction) and the commit. The tables are the committed store; the row
\* of an open transaction is kept with its call.
Returned(p, r) ==
    /\ calls' = [calls EXCEPT ![p] = NoCall]
    /\ last' = [op |-> "ensure_customer", args |-> <<calls[p].name, calls[p].phone, p>>,
                err |-> r.err, result |-> r.result, log |-> r.log]
    /\ UNCHANGED <<files, pos_cart, name_var, phone_var>>

\* The processes whose write transaction is open.
Writers == {q \in Procs : calls[q].pc = "inserted"}

\* "conn = get_conn()" and the SELECT: returns the id found, or goes on.
Lookup(p, name, phone) ==
    /\ calls[p].pc = "idle"
    /\ Len(customers) < MaxRows
    /\ LET c1 == Read(get_conn(Store, 0, <<>>), "SELECT customers")
           found == SelectCustomer(c1, name, phone)
       IN IF found # {}
          THEN /\ calls' = calls
               /\ last' = [op |-> "ensure_customer", args |-> <<name, phone, p>>,
                           err |-> "", result |-> Min(found),
                           log |-> Close(c1).log]
          ELSE /\ calls' = [calls EXCEPT ![p] =
                                [pc |-> "looked", name |-> name, phone |-> phone,
                                 log |-> c1.log]]
               /\ last' = last
    /\ UNCHANGED <<files, pos_cart, name_var, phone_var>>
    /\ SetTables(Store)

\* The INSERT while no other write transaction is open: it takes the write
\* lock, and fails at once on UNIQUE(name, phone).
Insert(p) ==
    /\ calls[p].pc = "looked"
    /\ Writers = {}
    /\ LET c2 == Issue(get_conn(Store, 0, calls[p].log), "INSERT customers")
       IN IF ~ UniqueCustomerHolds(c2.work, calls[p].name, calls[p].phone)
          THEN Returned(p, Outcome(c2, UniqueCustomerFailed, 0))
          ELSE /\ calls' = [calls EXCEPT ![p].pc = "inserted", ![p].log = c2.log]
               /\ last' = last
               /\ UNCHANGED <<files, pos_cart, name_var, phone_var>>
    /\ SetTables(Store)

\* The INSERT while another write transaction stays open for the whole busy
\* timeout of the handle (sqlite3.connect's default, 5 seconds).
InsertTimesOut(p) ==
    /\ calls[p].pc = "looked"
    /\ Writers # {}
    /\ LET c2 == Issue(get_conn(Store, 0, calls[p].log), "INSERT customers")
       IN Returned(p, Outcome(c2, DatabaseLocked, 0))
    /\ SetTables(Store)

\* "conn.commit()", the return of lastrowid and the close.
CommitInsert(p) ==
    /\ calls[p].pc = "inserted"
    /\ LET c2 == get_conn(Store, 1, calls[p].log)
           row == [id |-> Len(c2.work.customers) + 1, name |-> calls[p].name,
                   phone |-> calls[p].phone, email |-> ""]
           c3 == Issue([c2 EXCEPT !.work.customers = Append(@, row)], "COMMIT")
           r == Outcome(Commit(c3), "", row.id)
       IN /\ Returned(p, r)
          /\ SetTables(r.store)

RaceCallers == {<<Ann, P0300>>, <<Ann, NoText>>, <<Joanna, P0411>>}

NextRace ==
    \/ \E p \in Procs, c \in RaceCallers : Lookup(p, c[1], c[2])
    \/ \E p \in Procs : Insert(p)
    \/ \E p \in Procs : InsertTimesOut(p)
    \/ \E p \in Procs : CommitInsert(p)

SpecRace == Init /\ [][NextRace]_vars

\* ------------------------------ POSFrame ------------------------------ *
\* str.strip() of a text: the whitespace at both ends is dropped.
IsSpace(ch) == ch \in {" ", "\t", "\n", "\r"}

RECURSIVE Strip(_)
Strip(text) ==
    IF text = <<>> THEN text
    ELSE IF IsSpace(Head(text)) THEN Strip(Tail(text))
    ELSE IF IsSpace(text[Len(text)]) THEN Strip(SubSeq(text, 1, Len(text) - 1))
    ELSE text

\* self.cart is a dict in insertion order: a sequence of <<item_id, qty>>.
\* The place of item_id in it, or 0.
CartIndex(cart, item_id) ==
    IF \E i \in DOMAIN cart : cart[i][1] = item_id
    THEN CHOOSE i \in DOMAIN cart : cart[i][1] = item_id
    ELSE 0

\* "self.cart[item_id] = self.cart.get(item_id, 0) + 1"
add_selected(cart, item_id) ==
    LET i == CartIndex(cart, item_id)
    IN IF i = 0
       THEN Append(cart, <<item_id, 1>>)
       ELSE [cart EXCEPT ![i] = <<item_id, cart[i][2] + 1>>]

\* "self.cart.pop(item_id)"
Pop(cart, i) == SubSeq(cart, 1, i - 1) \o SubSeq(cart, i + 1, Len(cart))

\* "if item_id in self.cart: self.cart[item_id] -= 1; if ... <= 0: pop"
remove_selectedMut(cart, item_id) ==
    LET i == CartIndex(cart, item_id)
    IN IF i = 0 THEN cart
       ELSE IF cart[i][2] - 1 < 0 THEN Pop(cart, i)
       ELSE [cart EXCEPT ![i] = <<item_id, cart[i][2] - 1>>]

remove_selected(cart, item_id) ==
    LET i == CartIndex(cart, item_id)
    IN IF i = 0 THEN cart
       ELSE IF cart[i][2] - 1 <= 0 THEN Pop(cart, i)
       ELSE [cart EXCEPT ![i] = <<item_id, cart[i][2] - 1>>]

\* The loop of _refresh_cart from cart entry i on: the rows shown in the
\* cart view (item, name, qty, price, line) and their total; an item that
\* is not on the menu is left out.
RECURSIVE RefreshLoop(_, _, _, _, _)
RefreshLoop(conn, cart, i, total, rows) ==
    IF i > Len(cart)
    THEN [conn |-> conn, total |-> total, rows |-> rows]
    ELSE LET item_id == cart[i][1]
             qty == cart[i][2]
             c1 == Read(conn, "SELECT menu_items")
         IN IF item_id \in DOMAIN c1.work.menu_items
            THEN LET row == c1.work.menu_items[item_id]
                     line == row.price * qty
                 IN RefreshLoop(c1, cart, i + 1, total + line,
                                Append(rows, <<item_id, row.name, qty, row.price, line>>))
            ELSE RefreshLoop(c1, cart, i + 1, total, rows)

\* _refresh_cart: what the cart view and total_var show.
refresh_cart(store, cart, stmts, log) ==
    LET l == RefreshLoop(get_conn(store, stmts, log), cart, 1, 0, <<>>)
    IN Outcome(l.conn, "", [rows |-> l.rows, total |-> l.total])

NoSelection == "No selection"
EmptyCart == "Empty cart"

\* _checkout with a cart that is not empty: the cart, the two fields and
\* the outcome of the call.
checkoutMut(store, cart, name, phone, fault) ==
    LET r == create_order(store, Strip(name), Strip(phone), cart, fault)
        v == refresh_cart(r.store, <<>>, r.stmts, r.log)
    IN IF r.err = ""
       THEN [store |-> r.store, cart |-> <<>>, name |-> <<>>, phone |-> <<>>,
             err |-> "", result |-> r.result, stmts |-> v.stmts, log |-> v.log]
       ELSE [store |-> r.store, cart |-> <<>>, name |-> <<>>, phone |-> <<>>,
             err |-> r.err, result |-> r.result, stmts |-> r.stmts, log |-> r.log]

checkout(store, cart, name, phone, fault) ==
    LET r == create_order(store, Strip(name), Strip(phone), cart, fault)
        v == refresh_cart(r.store, <<>>, r.stmts, r.log)
    IN IF r.err = ""
       THEN [store |-> r.store, cart |-> <<>>, name |-> <<>>, phone |-> <<>>,
             err |-> "", result |-> r.result, stmts |-> v.stmts, log |-> v.log]
       ELSE [store |-> r.store, cart |-> cart, name |-> name, phone |-> phone,
             err |-> r.err, result |-> r.result, stmts |-> r.stmts, log |-> r.log]

\* The handlers leave the store's files and the calls of other processes.
Shown(op, args, err, cart) ==
    LET v == refresh_cart(Store, cart, 0, <<>>)
    IN /\ last' = [op |-> op, args |-> args, err |-> err, result |-> v.result,
                   log |-> v.log]
       /\ SetTables(Store)
       /\ UNCHANGED <<files, calls>>

\* sel is the row selected in the menu view, 0 for none; the view lists the
\* active menu items.
AddSelected(sel) ==
    IF sel = 0
    THEN /\ last' = [op |-> "_add_selected", args |-> <<sel>>, err |-> NoSelection,
                     result |-> 0, log |-> <<>>]
         /\ SetTables(Store)
         /\ UNCHANGED outside
    ELSE /\ sel \in DOMAIN menu_items
         /\ menu_items[sel].is_active = 1
         /\ \A i \in DOMAIN pos_cart : pos_cart[i][1] = sel => pos_cart[i][2] < MaxQty
         /\ pos_cart' = add_selected(pos_cart, sel)
         /\ Shown("_add_selected", <<sel>>, "", pos_cart')
         /\ UNCHANGED <<name_var, phone_var>>

\* sel is the row selected in the cart view, 0 for none.
RemoveSelected(sel) ==
    IF sel = 0
    THEN /\ last' = [op |-> "_remove_selected", args |-> <<sel>>, err |-> NoSelection,
                     result |-> 0, log |-> <<>>]
         /\ SetTables(Store)
         /\ UNCHANGED outside
    ELSE /\ CartIndex(pos_cart, sel) # 0
         /\ pos_cart' = remove_selected(pos_cart, sel)
         /\ Shown("_remove_selected", <<sel>>, "", pos_cart')
         /\ UNCHANGED <<name_var, phone_var>>

ClearCart ==
    /\ pos_cart' = <<>>
    /\ Shown("_clear_cart", <<>>, "", pos_cart')
    /\ UNCHANGED <<name_var, phone_var>>

Checkout(fault) ==
    IF pos_cart = <<>>
    THEN /\ fault = 0
         /\ last' = [op |-> "_checkout", args |-> <<Strip(name_var), Strip(phone_var), pos_cart, fault>>,
                     err |-> EmptyCart, result |-> 0, log |-> <<>>]
         /\ SetTables(Store)
         /\ UNCHANGED outside
    ELSE /\ fault # 0 \/ Len(orders) < MaxCheckouts
         /\ LET r == checkout(Store, pos_cart, name_var, phone_var, fault)
            IN /\ fault <= r.stmts
               /\ SetTables(r.store)
               /\ pos_cart' = r.cart
               /\ name_var' = r.name
               /\ phone_var' = r.phone
               /\ last' = [op |-> "_checkout",
                           args |-> <<Strip(name_var), Strip(phone_var), pos_cart, fault>>,
                           err |-> r.err, result |-> r.result, log |-> r.log]
               /\ UNCHANGED <<files, calls>>

\* The user fills in the name and the phone field.
TypeFields(name, phone) ==
    /\ <<name_var, phone_var>> # <<name, phone>>
    /\ name_var' = name
    /\ phone_var' = phone
    /\ last' = [op |-> "type", args |-> <<name, phone>>, err |-> "", result |-> 0, log |-> <<>>]
    /\ SetTables(Store)
    /\ UNCHANGED <<files, calls, pos_cart>>

Ann_spaced == <<" ", "A", "n", "n", " ">>

\* The rows the user selects: none, or one of two menu items. The user
\* fills the form in before every checkout.
Selections == {0, 1, 2}

NextPOS ==
    \/ \E sel \in Selections : AddSelected(sel)
    \/ \E sel \in Selections : RemoveSelected(sel)
    \/ ClearCart
    \/ TypeFields(Ann_spaced, P0300)
    \/ /\ name_var # NoText
       /\ \E fault \in {0, 2} : Checkout(fault)

SpecPOS == Init /\ [][NextPOS]_vars

\* Orders next to prices that change.
Prices == {500, 650, 750}

NextPrices ==
    \/ \E cart \in {<<<<1, 2>>>>, <<<<1, 1>>, <<2, 1>>>>} : CreateOrder(Ann, P0300, cart, 0)
    \/ \E item_id \in {1, 2}, price \in Prices : SetMenuPrice(item_id, price)
    \/ ListOrders(NoText, NoText)

SpecPrices == Init /\ [][NextPrices]_vars

\* Tickets, customers that are deleted, and the ticket listings.
NextOrphans ==
    \/ \E c \in ListCallers : CreateTicket(c[1], c[2], "Other", Leak, "Tap drips", 0)
    \/ \E id \in 1..2 : DeleteCustomer(id)
    \/ ListTickets
    \/ \E f \in Filters : ListTicketsFiltered(f[1], f[2])

SpecOrphans == Init /\ [][NextOrphans]_vars

\* File names and hints.
Pizza == <<"p", "i", "z", "z", "a">>
Png == <<".", "p", "n", "g">>
Jpg == <<".", "j", "p", "g">>
Jpeg == <<".", "j", "p", "e", "g">>
Icon == <<"i", "c", "o", "n">>
Up == <<".", ".", "/">>

\* The files that can be on disk besides: four images in assets, and an
\* image next to interface.py.
SomeFiles ==
    { <<App, Assets, Pizza \o Png \o Png>>, <<App, Assets, Pizza \o Png>>,
      <<App, Assets, Pizza \o Jpg>>, <<App, Assets, Pizza \o Jpeg>>,
      <<App, Icon \o Png>> }

\* Hints: none, the seed's doubled extension and its parts, a name without
\* file, a hint that climbs out of assets, an absolute path of a file and one
\* of no file.
Hints ==
    { NoText, Pizza \o Png, Pizza, Pizza \o Png \o Png, Pizza \o Jpg, Icon,
      Up \o HotelDb, BASE_DIR \o <<"/">> \o HotelDb, BASE_DIR \o <<"/">> \o Icon \o Jpg }

InitImages ==
    /\ menu_items = init_db_menu
    /\ rooms = init_db_rooms
    /\ orders = <<>>
    /\ order_items = <<>>
    /\ customers = <<>>
    /\ bookings = <<>>
    /\ tickets = <<>>
    /\ ticket_categories = init_db_categories
    /\ category_seq = Len(SUPPORT_CATEGORIES_DEFAULT)
    /\ last = [op |-> "init_db", args |-> <<>>, err |-> "", result |-> 0, log |-> <<>>]
    /\ files \in {FilesOfMain \cup some : some \in SUBSET SomeFiles}
    /\ pos_cart = <<>>
    /\ name_var = NoText
    /\ phone_var = NoText
    /\ calls = [p \in Procs |-> NoCall]

ResolveImagePath(path) ==
    /\ last' = [op |-> "resolve_image_path", args |-> <<path>>, err |-> "",
                result |-> resolve_image_path(files, path), log |-> <<>>]
    /\ UNCHANGED <<menu_items, rooms, orders, order_items, customers, bookings, tickets,
                   ticket_categories, category_seq>>
    /\ UNCHANGED outside

NextImages == \E path \in Hints : ResolveImagePath(path)

SpecImages == InitImages /\ [][NextImages]_vars

\* All operations together, on a few requests of each kind.

Next ==
    \/ /\ RowsLeft
       /\ \E cart \in {<<<<1, 1>>, <<2, 2>>>>, <<<<1, 1>>, <<2, 0>>>>, <<<<99, 1>>>>},
             f \in {0, 3} :
             CreateOrder(Ann, P0300, cart, f)
    \/ /\ RowsLeft
       /\ \E c \in Callers, room_id \in {2, 9}, f \in {0, 3} :
             CreateBooking(c[1], c[2], room_id, T_2025_01_10, T_2025_01_13, f)
    \/ /\ RowsLeft
       /\ \E c \in Callers, f \in {0, 3} :
             CreateTicket(c[1], c[2], "Other", Leak, "Tap drips", f)
    \/ /\ RowsLeft
       /\ \E c \in Callers, f \in {0, 1} :
             EnsureCustomer(c[1], c[2], f)

Spec == Init /\ [][Next]_vars

\* Every operation of the data layer: the writes with and without a store
\* fault, the listings, the registry and init_db.
NextLayer ==
    \/ /\ RowsLeft
       /\ \E cart \in {<<<<1, 1>>, <<2, 2>>>>, <<<<99, 1>>>>}, f \in {0, 3} :
             CreateOrder(Ann, P0300, cart, f)
    \/ /\ RowsLeft
       /\ \E room_id \in {2, 9}, f \in {0, 3} :
             CreateBooking(Ann, P0300, room_id, T_2025_01_10, T_2025_01_13, f)
    \/ /\ RowsLeft
       /\ \E f \in {0, 3} : CreateTicket(Ann, P0300, "Other", Leak, "Tap drips", f)
    \/ /\ RowsLeft
       /\ \E c \in Callers, f \in {0, 1} : EnsureCustomer(c[1], c[2], f)
    \/ ListOrders(Ann_lower, P03)
    \/ ListBookings
    \/ ListBookingsFiltered(Ann_lower, P03)
    \/ ListTickets
    \/ ListTicketsFiltered(Ann_lower, P03)
    \/ ListRooms
    \/ ListActive
    \/ AddCategory("Spa")
    \/ \E seed \in BOOLEAN : InitDb(seed, FORCE_CATEGORY_SET)

SpecLayer == Init /\ [][NextLayer]_vars

\* ------------------------------ properties ------------------------------ *
Range(s) == {s[i] : i \in DOMAIN s}

Count(s, x) == Cardinality({i \in DOMAIN s : s[i] = x})

\* The order lines of an order.
LinesOf(order_id) == {i \in DOMAIN order_items : order_items[i].order_id = order_id}

RECURSIVE SumLineTotals(_)
SumLineTotals(S) ==
    IF S = {} THEN 0
    ELSE LET i == CHOOSE k \in S : TRUE
         IN order_items[i].line_total + SumLineTotals(S \ {i})

\* The sum over the cart entries from i on of current price x quantity.
RECURSIVE CartSum(_, _)
CartSum(cart, i) ==
    IF i > Len(cart) THEN 0
    ELSE menu_items[cart[i][1]].price * cart[i][2] + CartSum(cart, i + 1)

ValidCart(cart) ==
    /\ cart # <<>>
    /\ \A i \in DOMAIN cart : cart[i][1] \in DOMAIN menu_items /\ cart[i][2] >= 1

HasUnknownItem(cart) == \E i \in DOMAIN cart : cart[i][1] \notin DOMAIN menu_items

\* C1: a create_order call with a non-empty cart of known item ids and
\* quantities >= 1 that the store does not fail succeeds, and every successful
\* call with such a cart stores an order whose total is the sum over the cart
\* of current price x quantity, with exactly one order_items row per cart
\* entry (that entry's item, quantity and price x quantity).
C1_OrderTotalAndLines ==
    (last.op = "create_order" /\ ValidCart(last.args[3])) =>
        LET cart == last.args[3]
            oid == last.result
        IN /\ (last.args[4] = 0 => last.err = "")
           /\ last.err = "" =>
                /\ oid \in DOMAIN orders
                /\ orders[oid].total = CartSum(cart, 1)
                /\ Cardinality(LinesOf(oid)) = Len(cart)
                /\ \A k \in DOMAIN cart :
                       \E i \in LinesOf(oid) :
                           /\ order_items[i].item_id = cart[k][1]
                           /\ order_items[i].qty = cart[k][2]
                           /\ order_items[i].line_total =
                                  menu_items[cart[k][1]].price * cart[k][2]

\* A second order with two lines has been stored.
C1_Witness ==
    /\ last.op = "create_order" /\ last.err = ""
    /\ Len(last.args[3]) = 2
    /\ last.result = 2
    /\ orders[2].total = 2000

\* C2: a create_order call whose cart holds an unknown item id, in any
\* position, fails with the item-not-found error and leaves orders and
\* order_items exactly as they were.
C2_UnknownItemNoRows ==
    [][(last'.op = "create_order" /\ HasUnknownItem(last'.args[3])) =>
          /\ last'.err = ItemNotFound
          /\ orders' = orders
          /\ order_items' = order_items]_vars

\* An order exists, and a cart with a known item first and the unknown item
\* second has been refused.
C2_Witness ==
    /\ last.op = "create_order" /\ last.err = ItemNotFound
    /\ Len(last.args[3]) = 2
    /\ last.args[3][1][1] \in DOMAIN menu_items
    /\ last.args[3][2][1] \notin DOMAIN menu_items
    /\ Len(orders) = 1 /\ Len(order_items) >= 1

\* C3: a create_order call that fails after its order row was inserted (a
\* rejected quantity, a store failure on a line or on the commit) leaves no
\* order row and no order line behind: orders and order_items are as before.
C3_FailedInsertRollsBack ==
    [][(last'.op = "create_order" /\ last'.err # ""
           /\ Count(last'.log, "INSERT orders") = 1) =>
          /\ orders' = orders
          /\ order_items' = order_items]_vars

\* The second line of a cart was rejected after the order row and the first
\* line had been inserted.
C3_Witness ==
    /\ last.op = "create_order" /\ last.err = CheckQtyFailed
    /\ Count(last.log, "INSERT orders") = 1
    /\ Count(last.log, "INSERT order_items") = 2
    /\ Len(orders) = 1

\* C4: in every committed state, every order's total is the sum of the
\* line_total of the order_items rows that reference it.
C4_TotalIsSumOfLines ==
    \A o \in DOMAIN orders : orders[o].total = SumLineTotals(LinesOf(orders[o].id))

\* A two-line order is stored and a later call failed in its line loop.
C4_Witness ==
    /\ \E o \in DOMAIN orders : Cardinality(LinesOf(o)) = 2 /\ orders[o].total > 0
    /\ last.op = "create_order" /\ last.err = StoreError
    /\ Count(last.log, "INSERT order_items") >= 1

\* The calendar day a text of the inputs denotes, or none.
DateOf(text) ==
    CASE text = T_2025_01_10 -> <<2025, 1, 10>>
      [] text = T_2025_01_13 -> <<2025, 1, 13>>
      [] text = T_2024_12_31 -> <<2024, 12, 31>>
      [] OTHER -> <<>>

IsDate(text) == DateOf(text) # <<>>

\* Calendar day a lies strictly before calendar day b.
Before(a, b) ==
    \/ a[1] < b[1]
    \/ a[1] = b[1] /\ a[2] < b[2]
    \/ a[1] = b[1] /\ a[2] = b[2] /\ a[3] < b[3]

DayAfter(a) ==
    IF a[3] < DaysInMonth(a[1], a[2]) THEN <<a[1], a[2], a[3] + 1>>
    ELSE IF a[2] < 12 THEN <<a[1], a[2] + 1, 1>>
    ELSE <<a[1] + 1, 1, 1>>

\* The number of days to step from day a to the later day b.
RECURSIVE DaysUntil(_, _)
DaysUntil(a, b) == IF a = b THEN 0 ELSE 1 + DaysUntil(DayAfter(a), b)

FormatErrors == {InvalidIsoFormat, MonthOutOfRange, DayOutOfRange, YearOutOfRange}

\* C5 (as claimed): whenever create_booking fails at or after the room
\* lookup, neither a booking row nor a customer row of that call is committed.
C5_BookingOneTransaction ==
    [][(last'.op = "create_booking" /\ last'.err # ""
           /\ Count(last'.log, "SELECT rooms") = 1) =>
          /\ bookings' = bookings
          /\ customers' = customers]_vars

\* C7: create_booking with a check-out on or before the check-in fails with
\* the check-out-not-after-check-in error without opening the store, stores
\* no booking and creates no customer; every stored booking has nights > 0.
C7_NonPositiveSpanRejected ==
    [][/\ (/\ last'.op = "create_booking"
           /\ IsDate(last'.args[4]) /\ IsDate(last'.args[5])
           /\ ~ Before(DateOf(last'.args[4]), DateOf(last'.args[5]))) =>
              /\ last'.err = CheckoutNotAfterCheckin
              /\ last'.log = <<>>
              /\ bookings' = bookings
              /\ customers' = customers
       /\ \A b \in DOMAIN bookings' : bookings'[b].nights > 0]_vars

\* A booking is stored, and a call with equal dates for a caller who is not
\* a customer has been refused.
C7_Witness ==
    /\ last.op = "create_booking" /\ last.err = CheckoutNotAfterCheckin
    /\ last.args[4] = last.args[5]
    /\ Len(bookings) = 1
    /\ \A c \in DOMAIN customers :
           ~ (customers[c].name = last.args[1] /\ customers[c].phone = last.args[2])

\* C8: the booking stored by a successful create_booking has nights = the
\* days from check-in to check-out, total = nights x the room's nightly
\* price, status 'Booked', and the room and the date texts of the call.
C8_NightsTotalStatus ==
    (last.op = "create_booking" /\ last.err = "") =>
        /\ last.result \in DOMAIN bookings
        /\ LET b == bookings[last.result]
               n == DaysUntil(DateOf(last.args[4]), DateOf(last.args[5]))
           IN /\ b.id = last.result
              /\ b.nights = n
              /\ b.total = n * rooms[last.args[3]].price_per_night
              /\ b.status = "Booked"
              /\ b.room_id = last.args[3]
              /\ b.check_in = last.args[4] /\ b.check_out = last.args[5]

\* 2025-01-10 to 2025-01-13 in the room of 5000 per night: 3 nights, 15000;
\* the other booking spans the end of a year.
C8_Witness ==
    /\ last.op = "create_booking" /\ last.err = ""
    /\ last.args[4] = T_2025_01_10 /\ last.args[5] = T_2025_01_13
    /\ rooms[last.args[3]].price_per_night = 5000
    /\ bookings[last.result].nights = 3 /\ bookings[last.result].total = 15000
    /\ \E b \in DOMAIN bookings : bookings[b].nights = 10 /\ bookings[b].total = 75000

\* C9: create_booking with check-out after check-in and a room id that is
\* not in rooms fails with the room-not-found error, stores no booking and
\* creates no customer.
C9_UnknownRoomNoRows ==
    [][(/\ last'.op = "create_booking"
        /\ IsDate(last'.args[4]) /\ IsDate(last'.args[5])
        /\ Before(DateOf(last'.args[4]), DateOf(last'.args[5]))
        /\ last'.args[3] \notin DOMAIN rooms) =>
           /\ last'.err = RoomNotFound
           /\ bookings' = bookings
           /\ customers' = customers]_vars

\* The unknown room was refused for a caller who is not a customer, while
\* another customer and a booking exist.
C9_Witness ==
    /\ last.op = "create_booking" /\ last.err = RoomNotFound
    /\ last.args[3] \notin DOMAIN rooms
    /\ Len(bookings) = 1 /\ Len(customers) = 1
    /\ ~ (customers[1].name = last.args[1] /\ customers[1].phone = last.args[2])

\* C10: create_booking reports the error of the earliest failing step of
\* (1) date parsing, (2) nights > 0, (3) room lookup, (4) customer
\* resolution; steps (1) and (2) fail with no connection opened and no row
\* read or written, and the customer is resolved only after the room is found.
C10_ValidationOrder ==
    (last.op = "create_booking") =>
        LET room_id == last.args[3]
            check_in == last.args[4]
            check_out == last.args[5]
            parsed == IsDate(check_in) /\ IsDate(check_out)
            after == parsed /\ Before(DateOf(check_in), DateOf(check_out))
        IN /\ ~ parsed => (last.err \in FormatErrors /\ last.log = <<>>)
           /\ (parsed /\ ~ after) =>
                 (last.err = CheckoutNotAfterCheckin /\ last.log = <<>>)
           /\ (after /\ room_id \notin DOMAIN rooms) =>
                 (last.err = RoomNotFound
                    /\ last.log = <<"get_conn", "SELECT rooms", "close">>)
           /\ (after /\ room_id \in DOMAIN rooms) =>
                 /\ last.err \notin FormatErrors \cup {CheckoutNotAfterCheckin, RoomNotFound}
                 /\ SubSeq(last.log, 1, 4) =
                        <<"get_conn", "SELECT rooms", "get_conn", "SELECT customers">>

\* An unreadable check-in with an unknown room gave the format error, after
\* a booking had been stored.
C10_Witness ==
    /\ last.op = "create_booking" /\ last.err = InvalidIsoFormat
    /\ last.args[3] \notin DOMAIN rooms
    /\ last.log = <<>>
    /\ Len(bookings) = 1

\* C6 (as claimed): a create_ticket call that fails leaves no new ticket row
\* and no customer row created by that call.
C6_TicketAllOrNothing ==
    [][(last'.op = "create_ticket" /\ last'.err # "") =>
          /\ tickets' = tickets
          /\ customers' = customers]_vars

\* C11: whatever operation ran, the customer rows keep their identities and
\* no two rows carry the same (name, phone); a successful ensure_customer
\* returns the identity of a row if and only if that row carries the call's
\* (name, phone), an empty phone being a value of its own, and adds at most
\* one row.
C11_CustomerIdentity ==
    [][/\ SubSeq(customers', 1, Len(customers)) = customers
       /\ \A i, j \in DOMAIN customers' :
              (customers'[i].name = customers'[j].name
               /\ customers'[i].phone = customers'[j].phone) => i = j
       /\ (last'.op = "ensure_customer" /\ last'.err = "") =>
              /\ last'.result \in DOMAIN customers'
              /\ Len(customers') <= Len(customers) + 1
              /\ \A i \in DOMAIN customers' :
                     (i = last'.result) <=>
                         (customers'[i].name = last'.args[1]
                          /\ customers'[i].phone = last'.args[2])]_vars

\* Three identities exist, two of one name, and a repeated ensure_customer
\* has returned the second of them.
C11_Witness ==
    /\ last.op = "ensure_customer" /\ last.err = ""
    /\ Len(customers) = 3
    /\ last.result = 2
    /\ customers[1].name = customers[2].name
    /\ customers[1].phone # customers[2].phone
    /\ \E i \in 1..3 : customers[i].name # customers[2].name
                        /\ customers[i].phone = customers[2].phone

SubjectRequired == "ValueError: Subject is required"

\* C12 (as claimed): a create_ticket call whose subject is empty after
\* trimming fails with the subject-required error and stores no ticket.
C12_EmptySubjectRejected ==
    [][(last'.op = "create_ticket" /\ Strip(last'.args[4]) = <<>>) =>
          /\ last'.err = SubjectRequired
          /\ tickets' = tickets]_vars

\* The names of the rows of a table.
NamesOf(rows) == {r.name : r \in rows}

\* C13: a successful create_ticket appends one ticket with status 'Open',
\* the customer that carries the call's (name, phone) and the category
\* exactly as given, in the registry or not; no create_ticket call, failed
\* or not, changes ticket_categories.
C13_TicketStoredAsGiven ==
    [][(last'.op = "create_ticket") =>
          /\ ticket_categories' = ticket_categories
          /\ category_seq' = category_seq
          /\ (last'.err = "") =>
                 /\ Len(tickets') = Len(tickets) + 1
                 /\ SubSeq(tickets', 1, Len(tickets)) = tickets
                 /\ LET t == tickets'[Len(tickets')]
                    IN /\ t.id = last'.result
                       /\ t.status = "Open"
                       /\ t.category = last'.args[3]
                       /\ t.subject = last'.args[4]
                       /\ t.customer_id \in DOMAIN customers'
                       /\ customers'[t.customer_id].name = last'.args[1]
                       /\ customers'[t.customer_id].phone = last'.args[2]]_vars

\* A ticket of a category that is not in the registry was stored, after one
\* of a category that is, and after the registry had been reset.
C13_Witness ==
    /\ last.op = "create_ticket" /\ last.err = ""
    /\ Len(tickets) = 2
    /\ tickets[2].category \notin NamesOf(ticket_categories)
    /\ tickets[1].category \in NamesOf(ticket_categories)
    /\ category_seq > Len(SUPPORT_CATEGORIES_DEFAULT)

\* C14: after add(name) the name is in list_active exactly once; an add of
\* a name that was there changes no row, and an add of a new name changes
\* no other row.
C14_AddIdempotent ==
    [][(last'.op = "add") =>
          LET name == last'.args[1]
              listed == list_active(Store').result
          IN /\ Cardinality({i \in DOMAIN listed : listed[i] = name}) = 1
             /\ Cardinality({r \in ticket_categories' : r.name = name}) = 1
             /\ ticket_categories \subseteq ticket_categories'
             /\ (name \in NamesOf(ticket_categories)) =>
                    ticket_categories' = ticket_categories
             /\ NamesOf(ticket_categories') = NamesOf(ticket_categories) \cup {name}]_vars

\* The third add after the seeding repeats the first, with an add of
\* another name in between: the registry has the rows of the first two.
C14_Witness ==
    /\ last.op = "add" /\ last.args = <<"Spa">>
    /\ [id |-> 7, name |-> "Spa", is_active |-> 1] \in ticket_categories
    /\ [id |-> 8, name |-> "Airport", is_active |-> 1] \in ticket_categories
    /\ Cardinality(ticket_categories) = 8
    /\ category_seq = 9

\* C15: ids are handed out in insertion order (a row inserted by a step has
\* a larger id than every row that was there, and the rows one init_db
\* inserts have ids in the order of the canonical list), and list_active
\* returns each active name once, in ascending id.
C15_ListInInsertionOrder ==
    [][/\ \A r \in ticket_categories' \ ticket_categories :
              \A q \in ticket_categories : r.id > q.id
       /\ (last'.op = "init_db") =>
              \A i, j \in DOMAIN SUPPORT_CATEGORIES_DEFAULT :
                  \A r, q \in ticket_categories' \ ticket_categories :
                      (r.name = SUPPORT_CATEGORIES_DEFAULT[i]
                       /\ q.name = SUPPORT_CATEGORIES_DEFAULT[j] /\ i < j) => r.id < q.id
       /\ (last'.op = "list_active") =>
              LET listed == last'.result
                  RowOf(n) == CHOOSE r \in ticket_categories' : r.name = n
              IN /\ \A i \in DOMAIN listed :
                        \E r \in ticket_categories' : r.name = listed[i] /\ r.is_active = 1
                 /\ \A r \in ticket_categories' :
                        r.is_active = 1 => \E i \in DOMAIN listed : listed[i] = r.name
                 /\ \A i, j \in DOMAIN listed :
                        i < j => RowOf(listed[i]).id < RowOf(listed[j]).id]_vars

\* list_active after a reset that followed an add: the canonical rows carry
\* new ids, and a category added after the reset is listed last.
C15_Witness ==
    /\ last.op = "list_active"
    /\ Len(last.result) = 7
    /\ last.result[7] = "Airport"
    /\ last.result[6] = "Other"
    /\ \A r \in ticket_categories : r.id > Len(SUPPORT_CATEGORIES_DEFAULT) + 1

\* C16: with forced reset, right after init_db with seeding list_active is
\* the canonical list, in its order, whatever had been added before.
C16_ForcedResetCanonical ==
    [][(last'.op = "init_db" /\ last'.args = <<TRUE, TRUE>>) =>
          /\ list_active(Store').result = SUPPORT_CATEGORIES_DEFAULT
          /\ NamesOf(ticket_categories') = Range(SUPPORT_CATEGORIES_DEFAULT)
          /\ Cardinality(ticket_categories') = Len(SUPPORT_CATEGORIES_DEFAULT)]_vars

\* init_db has run on a registry to which two categories had been added.
C16_Witness ==
    /\ last.op = "init_db" /\ last.args = <<TRUE, TRUE>>
    /\ \A r \in ticket_categories : r.id > Len(SUPPORT_CATEGORIES_DEFAULT) + 2
    /\ "Spa" \notin NamesOf(ticket_categories)

\* C17: without forced reset, init_db with seeding keeps every row as it is,
\* adds an active row for each canonical name that was missing, and nothing
\* else.
C17_NoForcePreserves ==
    [][(last'.op = "init_db" /\ last'.args = <<TRUE, FALSE>>) =>
          /\ ticket_categories \subseteq ticket_categories'
          /\ NamesOf(ticket_categories') =
                 NamesOf(ticket_categories) \cup Range(SUPPORT_CATEGORIES_DEFAULT)
          /\ Cardinality(ticket_categories') = Cardinality(NamesOf(ticket_categories'))
          /\ \A r \in ticket_categories' \ ticket_categories : r.is_active = 1]_vars

\* init_db has run on a registry with an inactive canonical row and an
\* added category: both are there, next to the canonical names it added.
C17_Witness ==
    /\ last.op = "init_db" /\ last.args = <<TRUE, FALSE>>
    /\ [id |-> 1, name |-> "Other", is_active |-> 0] \in ticket_categories
    /\ [id |-> 2, name |-> "Spa", is_active |-> 1] \in ticket_categories
    /\ Cardinality(ticket_categories) = 7

\* Two characters that are the same, or the same ASCII letter in two cases.
SameLetter(a, b) ==
    \/ a = b
    \/ \E i \in DOMAIN UpperLetters : {a, b} = {UpperLetters[i], LowerLetters[i]}

\* The text has the filter as a run of characters, compared exactly.
ContainsExact(text, filter) ==
    \E k \in 0..(Len(text) - Len(filter)) :
        \A i \in DOMAIN filter : text[k + i] = filter[i]

\* The text has a run of characters that is the filter up to letter case,
\* an underscore of the filter standing for any one character.
ContainsNoCase(text, filter) ==
    \E k \in 0..(Len(text) - Len(filter)) :
        \A i \in DOMAIN filter : filter[i] = "_" \/ SameLetter(text[k + i], filter[i])

FilteredLists == {"list_orders", "list_bookings_filtered", "list_tickets_filtered"}

\* The ids of the records a listing ranges over, and a record's name and phone.
IdsListedBy(op) ==
    CASE op = "list_orders" -> DOMAIN orders
      [] op \in {"list_bookings", "list_bookings_filtered"} -> DOMAIN bookings
      [] op \in {"list_tickets", "list_tickets_filtered"} -> DOMAIN tickets

NameListedBy(op, id) ==
    CASE op = "list_orders" -> orders[id].customer_name
      [] op \in {"list_bookings", "list_bookings_filtered"} ->
             customers[bookings[id].customer_id].name
      [] op \in {"list_tickets", "list_tickets_filtered"} ->
             customers[tickets[id].customer_id].name

PhoneListedBy(op, id) ==
    CASE op = "list_orders" -> orders[id].phone
      [] op \in {"list_bookings", "list_bookings_filtered"} ->
             customers[bookings[id].customer_id].phone
      [] op \in {"list_tickets", "list_tickets_filtered"} ->
             customers[tickets[id].customer_id].phone

\* The ids of the rows of a listing's result.
ResultIds == {last.result[k][1] : k \in DOMAIN last.result}

\* C18 (as claimed): a filtered listing returns a record if and only if its
\* name contains the name filter and its phone contains the phone filter,
\* character for character.
C18_FiltersCaseSensitive ==
    (last.op \in FilteredLists) =>
        ResultIds = {id \in IdsListedBy(last.op) :
                        /\ ContainsExact(NameListedBy(last.op, id), last.args[1])
                        /\ ContainsExact(PhoneListedBy(last.op, id), last.args[2])}

\* C18 (amended): for filters without %, a filtered listing returns a record
\* if and only if its name contains the name filter and its phone contains
\* the phone filter, letters compared without regard to ASCII case and an
\* underscore in a filter standing for any one character; an empty filter
\* keeps every record.
C18_FiltersIgnoreCase ==
    (/\ last.op \in FilteredLists
     /\ "%" \notin Range(last.args[1]) \cup Range(last.args[2])) =>
        ResultIds = {id \in IdsListedBy(last.op) :
                        /\ ContainsNoCase(NameListedBy(last.op, id), last.args[1])
                        /\ ContainsNoCase(PhoneListedBy(last.op, id), last.args[2])}

\* A lower-case name filter with a phone filter has kept the one of two
\* tickets whose customer has the phone, the name being stored capitalised.
C18_Witness ==
    /\ last.op = "list_tickets_filtered"
    /\ last.args = <<Ann_lower, P04>>
    /\ Len(tickets) = 2
    /\ Len(last.result) = 1
    /\ last.result[1][2] = Joanna
    /\ \E id \in DOMAIN tickets : customers[tickets[id].customer_id].name = Ann

Listings == FilteredLists \cup {"list_bookings", "list_tickets"}

\* A table after a step is the table before it, or that with one more row
\* whose id is larger than every id before.
GrowsByLaterIds(before, after) ==
    /\ Len(after) \in {Len(before), Len(before) + 1}
    /\ SubSeq(after, 1, Len(before)) = before
    /\ \A i \in DOMAIN after \ DOMAIN before :
           \A j \in DOMAIN before : after[i].id > before[j].id

\* C19: a record created later has a larger id than every record of its kind
\* created before, and every listing is in strictly descending id, so a later
\* record comes earlier; a listing without filter has every record.
C19_MostRecentFirst ==
    [][/\ GrowsByLaterIds(orders, orders')
       /\ GrowsByLaterIds(bookings, bookings')
       /\ GrowsByLaterIds(tickets, tickets')
       /\ (last'.op \in Listings) =>
              LET listed == last'.result
                  table == CASE last'.op = "list_orders" -> orders'
                             [] last'.op \in {"list_bookings", "list_bookings_filtered"} -> bookings'
                             [] OTHER -> tickets'
              IN /\ \A i, j \in DOMAIN listed : i < j => listed[i][1] > listed[j][1]
                 /\ {listed[k][1] : k \in DOMAIN listed} \subseteq {table[i].id : i \in DOMAIN table}
                 /\ (last'.args \in {<<>>, <<NoText, NoText>>}) =>
                        Len(listed) = Len(table)]_vars

\* Two orders are listed, the order of the second customer first.
C19_Witness ==
    /\ last.op = "list_orders" /\ last.args = <<NoText, NoText>>
    /\ Len(last.result) = 2
    /\ last.result[1][1] = 2 /\ last.result[2][1] = 1
    /\ orders[1].customer_name = Ann /\ orders[2].customer_name = Joanna
    /\ last.result[1][2] = Joanna

\* The ids of the rows of the listing a call returns.
IdsIn(rows) == {rows[k][1] : k \in DOMAIN rows}

\* C20: when a room is set inactive it is no longer in RoomRepo.list_active,
\* no booking row changes and list_bookings and list_bookings_filtered
\* return what they returned before; RoomRepo.list_active has the active
\* rooms only, and the booking listings have every booking, also those of
\* a room that is inactive.
C20_InactiveRoomKeepsBookings ==
    [][/\ (last'.op = "set_room_inactive") =>
              /\ last'.args[1] \notin IdsIn(RoomRepo_list_active(Store').result)
              /\ last'.args[1] \in IdsIn(RoomRepo_list_active(Store).result)
              /\ bookings' = bookings
              /\ list_bookings(Store').result = list_bookings(Store).result
              /\ list_bookings_filtered(Store', NoText, NoText).result =
                     list_bookings_filtered(Store, NoText, NoText).result
       /\ (last'.op = "RoomRepo.list_active") =>
              IdsIn(last'.result) = {i \in DOMAIN rooms' : rooms'[i].is_active = 1}
       /\ (last'.op = "list_bookings"
           \/ (last'.op = "list_bookings_filtered" /\ last'.args = <<NoText, NoText>>)) =>
              IdsIn(last'.result) = DOMAIN bookings']_vars

\* list_bookings has returned a booking of a room that is inactive.
C20_Witness ==
    /\ last.op = "list_bookings"
    /\ Len(last.result) = 2
    /\ \E k \in DOMAIN last.result :
           rooms[bookings[last.result[k][1]].room_id].is_active = 0
    /\ \E k \in DOMAIN last.result :
           rooms[bookings[last.result[k][1]].room_id].is_active = 1

\* A ticket row of a listing is the ticket with its customer's name and
\* phone, or with NULL for both when the ticket has no customer.
ShowsCustomerOf(row, ticket, people) ==
    IF ticket.customer_id = NullId
    THEN row[2] = Null /\ row[3] = Null
    ELSE row[2] = people[ticket.customer_id].name
         /\ row[3] = people[ticket.customer_id].phone

\* C21: deleting a customer clears the customer reference of the customer's
\* tickets and changes nothing else of any ticket; list_tickets and
\* list_tickets_filtered without filter return every ticket, those without
\* customer with a NULL name; with filters list_tickets_filtered returns the
\* tickets whose customer's name and phone contain the filters as in the
\* listings of orders and bookings, a ticket without customer having no
\* name and an empty phone.
C21_OrphanTicketsListed ==
    [][/\ (last'.op = "delete_customer") =>
              /\ DOMAIN tickets' = DOMAIN tickets
              /\ \A i \in DOMAIN tickets :
                     tickets'[i] =
                         IF tickets[i].customer_id = last'.args[1]
                         THEN [tickets[i] EXCEPT !.customer_id = NullId]
                         ELSE tickets[i]
       /\ (last'.op \in {"list_tickets", "list_tickets_filtered"}) =>
              \A k \in DOMAIN last'.result :
                  /\ last'.result[k][1] \in DOMAIN tickets'
                  /\ ShowsCustomerOf(last'.result[k], tickets'[last'.result[k][1]], customers')
       /\ (last'.op = "list_tickets"
           \/ (last'.op = "list_tickets_filtered" /\ last'.args = <<NoText, NoText>>)) =>
              IdsIn(last'.result) = DOMAIN tickets'
       /\ (last'.op = "list_tickets_filtered"
           /\ "%" \notin Range(last'.args[1]) \cup Range(last'.args[2])) =>
              IdsIn(last'.result) =
                  {i \in DOMAIN tickets' :
                      IF tickets'[i].customer_id = NullId
                      THEN last'.args[1] = <<>> /\ last'.args[2] = <<>>
                      ELSE /\ ContainsNoCase(customers'[tickets'[i].customer_id].name,
                                             last'.args[1])
                           /\ ContainsNoCase(customers'[tickets'[i].customer_id].phone,
                                             last'.args[2])}]_vars

\* Two tickets are listed without filter, one of a customer that was
\* deleted, with a NULL name, and one with its customer's name.
C21_Witness ==
    /\ last.op = "list_tickets_filtered" /\ last.args = <<NoText, NoText>>
    /\ Len(last.result) = 2
    /\ \E k \in 1..2 : last.result[k][2] = Null
                       /\ tickets[last.result[k][1]].customer_id = NullId
    /\ \E k \in 1..2 : last.result[k][2] = Joanna

\* A name below the assets root: "assets/name".
UnderAssets(name) == ASSETS_DIR \o <<"/">> \o name

\* The candidates of the search for a hint, in their order.
Candidates(hint) ==
    << UnderAssets(hint),
       UnderAssets(splitext(hint) \o Png),
       UnderAssets(splitext(hint) \o Jpg),
       UnderAssets(splitext(hint) \o Jpeg),
       UnderAssets(hint \o Png) >>

\* C22 (as claimed): for a hint that is not empty and not an absolute path
\* of an existing file, the result is the first of assets/hint,
\* assets/stem.png, assets/stem.jpg, assets/stem.jpeg, assets/hint.png that
\* exists, and none when none exists or the hint is empty.
C22_FirstMatchUnderAssets ==
    (last.op = "resolve_image_path") =>
        LET hint == last.args[1]
            there == {i \in 1..5 : exists(files, Candidates(hint)[i])}
        IN IF hint = <<>> THEN last.result = Null
           ELSE IF isabs(hint) /\ exists(files, hint) THEN TRUE
           ELSE IF there = {} THEN last.result = Null
           ELSE last.result = Candidates(hint)[Min(there)]

\* The place a path names, "." and ".." taken as the system takes them.
RECURSIVE PlaceOf(_, _)
PlaceOf(names, place) ==
    IF names = <<>> THEN place
    ELSE IF Head(names) \in {<<>>, <<".">>} THEN PlaceOf(Tail(names), place)
    ELSE IF Head(names) = <<".", ".">>
    THEN PlaceOf(Tail(names),
                 IF place = <<>> THEN place ELSE SubSeq(place, 1, Len(place) - 1))
    ELSE PlaceOf(Tail(names), Append(place, Head(names)))

\* The path names a place in the assets directory.
InsideAssets(path) ==
    LET place == PlaceOf(Split(path), <<>>)
        root == PlaceOf(Split(ASSETS_DIR), <<>>)
    IN Len(place) >= Len(root) /\ SubSeq(place, 1, Len(root)) = root

\* C23 (as claimed): for a relative hint the returned path, if any, lies
\* inside the assets directory.
C23_StaysInsideAssets ==
    (/\ last.op = "resolve_image_path"
     /\ ~isabs(last.args[1])
     /\ last.result # Null) => InsideAssets(last.result)

\* The handles a call has open after the first n events of its log.
OpenHandles(log, n) ==
    Cardinality({i \in 1..n : log[i] = "get_conn"})
        - Cardinality({i \in 1..n : log[i] = "close"})

\* C24: when a call has returned or raised, every handle it opened is
\* closed: in its store events no handle is closed that was not opened,
\* every statement runs on an open handle, and no handle is open at the end.
C24_HandlesReleased ==
    /\ OpenHandles(last.log, Len(last.log)) = 0
    /\ \A n \in DOMAIN last.log :
           /\ OpenHandles(last.log, n) >= 0
           /\ last.log[n] \notin {"get_conn", "close"} => OpenHandles(last.log, n) > 0

\* create_booking has failed at the store with its own handle and the
\* handle of ensure_customer opened.
C24_Witness ==
    /\ last.op = "create_booking"
    /\ last.err = StoreError
    /\ Count(last.log, "get_conn") = 2
    /\ Count(last.log, "close") = 2

\* C25: in every step, also one after a price change, the stored orders and
\* order lines keep their values (total and line_total included); the lines
\* a successful create_order adds carry the price the menu has at that
\* moment times the quantity, and list_orders reports the stored totals.
C25_LineTotalFrozen ==
    [][ /\ \A o \in DOMAIN orders : o \in DOMAIN orders' /\ orders'[o] = orders[o]
        /\ \A i \in DOMAIN order_items :
               i \in DOMAIN order_items' /\ order_items'[i] = order_items[i]
        /\ (last'.op = "create_order" /\ last'.err = "") =>
               /\ DOMAIN order_items' # DOMAIN order_items
               /\ \A i \in DOMAIN order_items' \ DOMAIN order_items :
                      order_items'[i].line_total
                          = menu_items[order_items'[i].item_id].price * order_items'[i].qty
        /\ last'.op = "list_orders" =>
               \A k \in DOMAIN last'.result :
                   last'.result[k][4] = orders[last'.result[k][1]].total
      ]_vars

\* Two lines of the same item and quantity are stored with different
\* line_total: the price changed between the two orders, and the later line
\* has the price of now.
C25_Witness ==
    /\ last.op = "create_order" /\ last.err = ""
    /\ \E i, j \in DOMAIN order_items :
          /\ i < j
          /\ order_items[i].item_id = order_items[j].item_id
          /\ order_items[i].qty = order_items[j].qty
          /\ order_items[i].line_total # order_items[j].line_total
          /\ order_items[j].line_total
                 = menu_items[order_items[j].item_id].price * order_items[j].qty
          /\ orders[order_items[i].order_id].total
                 = SumLineTotals(LinesOf(order_items[i].order_id))

\* The rows of a table before a step are its first rows after it.
KeepsRows(old, new) ==
    /\ Len(new) >= Len(old)
    /\ \A i \in DOMAIN old : new[i] = old[i]

\* C26: no operation of the layer, failing or not, changes or removes a
\* stored order, order line, booking, ticket or customer: each of these
\* tables keeps every row it had and at most gets rows appended.
C26_LedgerOnlyGrows ==
    [][ /\ KeepsRows(orders, orders')
        /\ KeepsRows(order_items, order_items')
        /\ KeepsRows(bookings, bookings')
        /\ KeepsRows(tickets, tickets')
        /\ KeepsRows(customers, customers')
      ]_vars

\* init_db has run with seeding and the forced reset on a store that holds
\* an order with its line, a booking, a ticket and a customer.
C26_Witness ==
    /\ last.op = "init_db" /\ last.args = <<TRUE, TRUE>>
    /\ Count(last.log, "DELETE ticket_categories") = 1
    /\ Len(orders) >= 1 /\ Len(order_items) >= 1
    /\ Len(bookings) >= 1 /\ Len(tickets) >= 1 /\ Len(customers) >= 1

\* No two customers rows have the same name and phone.
NoTwoRows(rows) ==
    \A i, j \in DOMAIN rows :
        (rows[i].name = rows[j].name /\ rows[i].phone = rows[j].phone) => i = j

\* Process p found no row for its pair and the other process has put one
\* in since: committed, or in its open transaction.
LostRace(p) ==
    /\ calls[p].pc = "looked"
    /\ \/ ~ UniqueCustomerHolds(Store, calls[p].name, calls[p].phone)
       \/ \E q \in Procs \ {p} :
             /\ calls[q].pc = "inserted"
             /\ calls[q].name = calls[p].name
             /\ calls[q].phone = calls[p].phone

\* C27 as stated: customers never has two rows for a pair, and the INSERT of
\* a caller that lost the race ends its call with the uniqueness error and
\* no new row.
C27_LoserGetsUniquenessError ==
    [][ /\ NoTwoRows(customers')
        /\ \A p \in Procs :
               (LostRace(p) /\ calls'[p].pc = "idle") =>
                   /\ last'.err = UniqueCustomerFailed
                   /\ customers' = customers
      ]_vars

\* C27 amended: customers never has two rows for a pair, and the INSERT of
\* a caller that lost the race ends its call with no new row and a store
\* error: the uniqueness error when the winner has committed, "database is
\* locked" when the winner's transaction was open throughout the timeout.
C27_LoserGetsStoreError ==
    [][ /\ NoTwoRows(customers')
        /\ \A p \in Procs :
               (LostRace(p) /\ calls'[p].pc = "idle") =>
                   /\ customers' = customers
                   /\ last'.err \in {UniqueCustomerFailed, DatabaseLocked}
                   /\ last'.err = UniqueCustomerFailed =>
                          ~ UniqueCustomerHolds(Store, calls[p].name, calls[p].phone)
                   /\ last'.err = DatabaseLocked => Writers # {}
      ]_vars

\* Both processes looked the same pair up before either inserted, one has
\* committed its row, and the other's INSERT has failed on uniqueness.
C27_Witness ==
    /\ last.op = "ensure_customer" /\ last.err = UniqueCustomerFailed
    /\ Count(last.log, "INSERT customers") = 1
    /\ \E i \in DOMAIN customers :
          customers[i].name = last.args[1] /\ customers[i].phone = last.args[2]
    /\ \A p \in Procs : calls[p].pc = "idle"

\* C28: in every state the POS handlers reach, every entry of the cart has
\* a quantity of at least 1, and no checkout fails on the store's qty >= 1
\* check.
C28_CartQuantitiesPositive ==
    /\ \A i \in DOMAIN pos_cart : pos_cart[i][2] >= 1
    /\ last.op = "_checkout" => last.err # CheckQtyFailed
    /\ \A i \in DOMAIN order_items : order_items[i].qty >= 1

\* The entry of the selected item had quantity 1 and is gone from a cart
\* that keeps another entry.
C28_Witness ==
    /\ last.op = "_remove_selected" /\ last.err = ""
    /\ CartIndex(pos_cart, last.args[1]) = 0
    /\ pos_cart # <<>>

\* C29: a _checkout with an empty cart changes nothing but the warning
\* shown; one whose create_order succeeds stores one order for the stripped
\* name and phone with a line per cart entry, empties the cart and clears
\* both fields; one whose create_order fails leaves the cart, both fields,
\* orders and order_items as they were.
C29_Checkout ==
    [][ last'.op = "_checkout" =>
          IF pos_cart = <<>>
          THEN /\ last'.err = EmptyCart
               /\ Store' = Store
               /\ outside' = outside
          ELSE IF last'.err = ""
          THEN /\ pos_cart' = <<>> /\ name_var' = NoText /\ phone_var' = NoText
               /\ Len(orders') = Len(orders) + 1
               /\ orders'[Len(orders')].customer_name = Strip(name_var)
               /\ orders'[Len(orders')].phone = Strip(phone_var)
               /\ Len(order_items') = Len(order_items) + Len(pos_cart)
               /\ \A i \in DOMAIN pos_cart :
                      /\ order_items'[Len(order_items) + i].order_id = last'.result
                      /\ order_items'[Len(order_items) + i].item_id = pos_cart[i][1]
                      /\ order_items'[Len(order_items) + i].qty = pos_cart[i][2]
          ELSE /\ pos_cart' = pos_cart /\ name_var' = name_var /\ phone_var' = phone_var
               /\ orders' = orders /\ order_items' = order_items
      ]_vars

\* A checkout of a cart with two entries has failed at the store while the
\* name field holds a text; an earlier checkout had succeeded.
C29_Witness ==
    /\ last.op = "_checkout" /\ last.err = StoreError
    /\ Len(pos_cart) = 2 /\ name_var = Ann_spaced /\ phone_var = P0300
    /\ Len(orders) = 1 /\ orders[1].customer_name = Ann

\* The call's outcome on the same store without any booking.
AsOnlyBooking(args) ==
    create_booking([Store EXCEPT !.bookings = <<>>],
                   args[1], args[2], args[3], args[4], args[5], args[6])

\* C30: a create_booking call without store fault whose dates parse, with
\* check-out after check-in, for a room id in rooms, succeeds whatever the
\* room's active flag and the stored bookings are: it appends one booking,
\* with the nights and the total the call has on a store without bookings.
C30_BooksWhateverIsStored ==
    [][ ( /\ last'.op = "create_booking"
          /\ last'.args[6] = 0
          /\ IsDate(last'.args[4]) /\ IsDate(last'.args[5])
          /\ Before(DateOf(last'.args[4]), DateOf(last'.args[5]))
          /\ last'.args[3] \in DOMAIN rooms )
        => /\ last'.err = ""
           /\ Len(bookings') = Len(bookings) + 1
           /\ last'.result = Len(bookings')
           /\ LET new == bookings'[Len(bookings')]
                  alone == AsOnlyBooking(last'.args).store.bookings[1]
              IN /\ new.room_id = last'.args[3]
                 /\ new.nights = DaysUntil(DateOf(last'.args[4]), DateOf(last'.args[5]))
                 /\ new.nights = alone.nights
                 /\ new.total = alone.total
                 /\ new.total = new.nights * rooms[new.room_id].price_per_night
      ]_vars

\* The last call has booked a room that is inactive and that an earlier
\* booking holds for the same dates.
C30_Witness ==
    /\ last.op = "create_booking" /\ last.err = ""
    /\ rooms[last.args[3]].is_active = 0
    /\ \E i, j \in DOMAIN bookings :
          /\ i < j /\ j = last.result
          /\ bookings[i].room_id = bookings[j].room_id
          /\ bookings[i].check_in = bookings[j].check_in
          /\ bookings[i].check_out = bookings[j].check_out
          /\ bookings[j].total = bookings[i].total

====
